---- MODULE Spec2Model ----
(***************************************************************************)
(* A model of go-mezzanine: the sharded, immutable cell store, its HTTP    *)
(* handlers, the secondary-index registry, the plugin registry and the     *)
(* notifier with its JSON-RPC client.                                      *)
(*                                                                         *)
(* JSON bodies are modelled as parsed objects (functions from keys to      *)
(* values): PostgreSQL stores them as JSONB, which keeps the parsed value  *)
(* and not the text that was sent, so equality of bodies is equality of    *)
(* JSON values, as in the repository's own storage test.                   *)
(***************************************************************************)
EXTENDS Integers, Sequences, FiniteSets, TLC

\* ------------------------------------------------------------------------
\* Bounds of the model
\* ------------------------------------------------------------------------

\* number of shards of the modelled deployment (NUM_SHARDS)
NumShards == 2

\* number of write requests the model follows
MaxWrites == 2

\* number of plugins the model registers
MaxPlugins == 2

\* the greatest TRIGGER_RETRY_MAX the model configures
RetryBound == 2

\* number of calls of RPCClient.Call made by callers other than the notifier
MaxCalls == 1

\* number of goroutines that call Breaker.Execute
MaxGoroutines == 2

\* number of calls of Breaker.Execute the model follows
MaxExecutes == 4

\* the last instant of the clock
MaxClock == 3

\* the greatest maxFailures a breaker is created with
MaxFailuresBound == 2

\* number of trigger handlers registered for the watched column
MaxHandlers == 2

\* TRIGGER_BATCH_SIZE of the model's watcher
BatchSize == 2

\* TRIGGER_RETRY_MAX when the environment does not set it
TriggerRetryMax == 3

\* ------------------------------------------------------------------------
\* 32-bit arithmetic.  TLC integers are 32-bit signed, so an unsigned 32-bit
\* word is kept as a pair <<hi, lo>> of 16-bit halves.
\* ------------------------------------------------------------------------

Half == 65536

RECURSIVE XorBits(_, _, _)
\* bitwise exclusive or of the n low bits of a and b
XorBits(a, b, n) ==
    IF n = 0 THEN 0
    ELSE ((a + b) % 2) + 2 * XorBits(a \div 2, b \div 2, n - 1)

\* hash/fnv offset32
FnvOffset32 == <<33052, 40389>>

\* hash/fnv prime32 = 2^24 + 403, used below as its two summands
FnvPrimeLow == 403

\* one step of (*sum32a).Write: hash ^= byte; hash *= prime32  (mod 2^32)
FnvStep(h, byte) ==
    LET lo   == XorBits(h[2], byte, 16)
        hi   == h[1]
        pl   == lo * FnvPrimeLow
        nlo  == pl % Half
        nhi  == (hi * FnvPrimeLow + (pl \div Half) + (lo % 256) * 256) % Half
    IN  <<nhi, nlo>>

RECURSIVE FnvFold(_, _, _)
FnvFold(h, bytes, i) ==
    IF i > Len(bytes) THEN h ELSE FnvFold(FnvStep(h, bytes[i]), bytes, i + 1)

\* fnv.New32a(); h.Write(bytes); h.Sum32()
Sum32a(bytes) == FnvFold(FnvOffset32, bytes, 1)

\* the width of Go's int on the modelled build (strconv.IntSize)
IntSize == 64

\* ID(int(h.Sum32()) % numShards): the conversion uint32 -> int keeps the value
\* when int has 64 bits and wraps to a negative number when int has 32 bits and
\* the top bit is set; Go's % truncates, so a negative dividend gives a
\* remainder <= 0.
IntModShards(h, numShards, intSize) ==
    LET u == ((h[1] % numShards) * (Half % numShards) + (h[2] % numShards)) % numShards
        p == ((Half % numShards) * (Half % numShards)) % numShards
    IN  IF intSize = 32 /\ h[1] >= 32768
        THEN 0 - ((p + numShards - u) % numShards)
        ELSE u

\* shard.ForRowKey: the 16 bytes of the UUID
ForRowKey(rowKey, numShards) == IntModShards(Sum32a(rowKey), numShards, IntSize)

\* shard.ForKey: the UTF-8 bytes of the string
ForKey(key, numShards) == IntModShards(Sum32a(key), numShards, IntSize)

\* ------------------------------------------------------------------------
\* Inputs the model draws from
\* ------------------------------------------------------------------------

\* a UUID is its 16 bytes
UUID(n) == [i \in 1..16 |-> IF i = 16 THEN n ELSE 0]

RowKeys == {UUID(1), UUID(2)}

ColumnNames == {"avatar", "profile", "settings"}

\* text order of the column names (ORDER BY column_name)
ColumnRank(c) == IF c = "avatar" THEN 1 ELSE IF c = "profile" THEN 2 ELSE 3

\* the columns written on the cell path; no index reads them
CellColumns == {"avatar", "settings"}

RefKeys == {1, 2}

\* JSON values: a string or a number, each with the text body->>'k' yields
JStr(bytes) == [t |-> "string", text |-> bytes]
JNum(bytes) == [t |-> "number", text |-> bytes]

\* "a@b", "x", "y" as UTF-8 bytes; the number 7
EmailAB == <<97, 64, 98>>
OrgX == <<120>>
OrgY == <<121>>

\* {"email":"a@b","org":"x"}, {"email":"a@b","org":"y"}, {"org":"x"},
\* {"email":7,"org":"y"}
BodyABX == [k \in {"email", "org"} |-> IF k = "email" THEN JStr(EmailAB) ELSE JStr(OrgX)]
BodyABY == [k \in {"email", "org"} |-> IF k = "email" THEN JStr(EmailAB) ELSE JStr(OrgY)]
BodyX == [k \in {"org"} |-> JStr(OrgX)]
Body7Y == [k \in {"email", "org"} |-> IF k = "email" THEN JNum(<<55>>) ELSE JStr(OrgY)]

Bodies == {BodyABX, BodyABY, BodyX, Body7Y}

\* the bodies written on the cell path, where only their equality matters
CellBodies == {BodyABX, BodyX}

ShardIDs == 0..(NumShards - 1)

WriteIds == 1..MaxWrites

\* ------------------------------------------------------------------------
\* State
\* ------------------------------------------------------------------------

VARIABLES
    cells,      \* cells[s]: the rows of table cells_%04d of shard s, in insertion order
    nextId,     \* nextId[s]: the next value of the BIGSERIAL sequence of cells[s]
    reqs,       \* reqs[i]: the i-th POST /v1/cells request and how far its handler is
    notified,   \* the (shardID, cell) pairs handed to Notifier.NotifyCell
    idxStores,  \* idxStores[name][s]: the rows of table index_<name>_%04d of shard s
    idxNextId,  \* idxNextId[name][s]: the next value of that table's BIGSERIAL sequence
    idxCalls,   \* idxCalls[i]: the call of Registry.IndexCell made for request i
    plugins,    \* PluginRegistry.plugins: the in-memory map from plugin id to plugin
    pluginStore,    \* the rows of table plugins, by id
    nextPluginId,   \* the next fresh plugin id (uuid.New)
    lastRegistry,   \* what the last call of Register or Delete returned
    maxRetries, \* RPCClient.maxRetries
    deliveries, \* the calls of RPCClient.Call, each with how far it is
    scan,       \* a client paging through one shard with partitionRead, and its pages
    hashed,     \* the calls of shard.ForRowKey and shard.ForKey made, with what they returned
    shardCfg,   \* what LoadShardConfig was given at start-up and what it returned
    health,     \* the readiness probe in progress: its pings and its answer
    breaker,    \* the circuitbreaker.Breaker: its fields
    execs,      \* execs.calls[g]: goroutine g's call of Breaker.Execute, and how far it is
    now,        \* the clock of time.Now, in units of the breaker's timeouts
    watcher,    \* the goroutine of Watcher.watchShard for one (shard, column)
    checkpoint, \* the row of table trigger_checkpoints for that (shard, column), if any
    processed,  \* the calls of the trigger handlers: the cell, the handler, the outcome
    lostReplies \* the plugin ids whose INSERT or DELETE took effect while the call failed

idxVars == <<idxStores, idxNextId, idxCalls>>

registryVars == <<plugins, pluginStore, nextPluginId, lastRegistry>>

trigVars == <<plugins, pluginStore, nextPluginId, lastRegistry, maxRetries, deliveries>>

vars == <<cells, nextId, reqs, notified, idxStores, idxNextId, idxCalls,
          plugins, pluginStore, nextPluginId, lastRegistry, maxRetries, deliveries,
          scan, hashed, shardCfg, health, breaker, execs, now,
          watcher, checkpoint, processed, lostReplies>>

cbVars == <<breaker, execs, now>>

watchVars == <<watcher, checkpoint, processed>>

\* the variables of the components modelled after the boot path
lateVars == <<cbVars, watchVars, lostReplies>>

bootVars == <<hashed, shardCfg, health, lateVars>>

\* the variables of the stores, the handlers, the registry and the boot path
baseVars == <<cells, nextId, reqs, notified, idxStores, idxNextId, idxCalls,
              plugins, pluginStore, nextPluginId, lastRegistry, maxRetries, deliveries,
              scan, hashed, shardCfg, health>>

IdleReq ==
    [pc |-> "idle", row_key |-> UUID(1), column_name |-> "profile", ref_key |-> 1,
     body |-> BodyX, shard |-> 0, err |-> "none", cell |-> <<>>, logged |-> "none",
     status |-> 0]

\* ------------------------------------------------------------------------
\* shard.Router
\* ------------------------------------------------------------------------

\* Router.StoreFor: registration covers every shard of the validated config
StoreFor(id) == id \in DOMAIN cells

\* ------------------------------------------------------------------------
\* storage.PostgresStore on one shard table
\* ------------------------------------------------------------------------

SameRef(row, rowKey, columnName, refKey) ==
    /\ row.row_key = rowKey
    /\ row.column_name = columnName
    /\ row.ref_key = refKey

\* a changed constraint: UNIQUE (row_key, column_name, ref_key, body)
UniqueRefViolated_WithBody(table, req) ==
    \E i \in 1..Len(table) :
        /\ SameRef(table[i], req.row_key, req.column_name, req.ref_key)
        /\ table[i].body = req.body

\* CONSTRAINT uq_%s_ref UNIQUE (row_key, column_name, ref_key)
UniqueRefViolated(table, req) ==
    \E i \in 1..Len(table) : SameRef(table[i], req.row_key, req.column_name, req.ref_key)

\* the row an INSERT adds.  created_at is DEFAULT now(): the instant of the
\* clock at which the statement runs, so rows inserted within one instant
\* have the same created_at
NewCell(addedId, req) ==
    [added_id |-> addedId, row_key |-> req.row_key, column_name |-> req.column_name,
     ref_key |-> req.ref_key, body |-> req.body, created_at |-> now]

\* a changed statement: INSERT ... ON CONFLICT (row_key, column_name, ref_key)
\* DO UPDATE SET body = EXCLUDED.body RETURNING ...
StoreWriteCell_Upsert(table, seq, req, dbOK) ==
    IF ~dbOK
    THEN [err |-> "db_error", table |-> table, seq |-> seq, cell |-> <<>>]
    ELSE IF UniqueRefViolated(table, req)
    THEN LET k == CHOOSE i \in 1..Len(table) :
                      SameRef(table[i], req.row_key, req.column_name, req.ref_key)
         IN  [err |-> "none", table |-> [table EXCEPT ![k].body = req.body],
              seq |-> seq + 1, cell |-> <<[table[k] EXCEPT !.body = req.body]>>]
    ELSE [err |-> "none", table |-> Append(table, NewCell(seq, req)), seq |-> seq + 1,
          cell |-> <<NewCell(seq, req)>>]

\* PostgresStore.WriteCell: INSERT ... RETURNING.  dbOK = FALSE is a statement the
\* database never ran (timeout, lost connection).  A statement that runs takes
\* the next sequence value before the unique constraint is checked.
StoreWriteCell(table, seq, req, dbOK) ==
    IF ~dbOK
    THEN [err |-> "db_error", table |-> table, seq |-> seq, cell |-> <<>>]
    ELSE IF UniqueRefViolated(table, req)
    THEN [err |-> "unique_violation", table |-> table, seq |-> seq + 1, cell |-> <<>>]
    ELSE [err |-> "none", table |-> Append(table, NewCell(seq, req)), seq |-> seq + 1,
          cell |-> <<NewCell(seq, req)>>]

\* a changed clause: ORDER BY ref_key, without DESC
RefKeyDesc_Ascending(a, b) == a.ref_key < b.ref_key

\* ORDER BY ref_key DESC
RefKeyDesc(a, b) == a.ref_key > b.ref_key

\* ORDER BY column_name, ref_key DESC
ColumnThenRefKeyDesc(a, b) ==
    \/ ColumnRank(a.column_name) < ColumnRank(b.column_name)
    \/ a.column_name = b.column_name /\ a.ref_key > b.ref_key

\* the ORDER BY clauses of the store's queries
Before(order, a, b) ==
    IF order = "ref_key DESC" THEN RefKeyDesc(a, b)
    ELSE IF order = "added_id ASC" THEN a.added_id < b.added_id
    ELSE IF order = "created_at ASC" THEN a.created_at < b.created_at
    ELSE ColumnThenRefKeyDesc(a, b)

\* ORDER BY: insertion of one row into a sequence already in order
RECURSIVE InsertOrdered(_, _, _)
InsertOrdered(row, sorted, order) ==
    IF sorted = <<>> THEN <<row>>
    ELSE IF Before(order, row, Head(sorted))
         THEN <<row>> \o sorted
         ELSE <<Head(sorted)>> \o InsertOrdered(row, Tail(sorted), order)

RECURSIVE OrderBy(_, _)
OrderBy(rows, order) ==
    IF rows = <<>> THEN <<>>
    ELSE InsertOrdered(Head(rows), OrderBy(Tail(rows), order), order)

\* SELECT DISTINCT ON (column_name): the first row of each run of equal column_name
RECURSIVE DistinctOnColumn(_)
DistinctOnColumn(rows) ==
    IF Len(rows) <= 1 THEN rows
    ELSE IF rows[1].column_name = rows[2].column_name
         THEN DistinctOnColumn(<<rows[1]>> \o Tail(Tail(rows)))
         ELSE <<rows[1]>> \o DistinctOnColumn(Tail(rows))

\* LIMIT n
Limit(rows, n) == IF Len(rows) <= n THEN rows ELSE SubSeq(rows, 1, n)

\* PostgresStore.GetCell: the rows of the point lookup (pgx.ErrNoRows when empty)
StoreGetCell(table, rowKey, columnName, refKey) ==
    LET Match(row) == SameRef(row, rowKey, columnName, refKey)
    IN  SelectSeq(table, Match)

\* PostgresStore.GetCellLatest: ORDER BY ref_key DESC LIMIT 1
StoreGetCellLatest(table, rowKey, columnName) ==
    LET Match(row) == row.row_key = rowKey /\ row.column_name = columnName
    IN  Limit(OrderBy(SelectSeq(table, Match), "ref_key DESC"), 1)

\* PostgresStore.GetRow: DISTINCT ON (column_name) ... ORDER BY column_name, ref_key DESC
StoreGetRow(table, rowKey) ==
    LET Match(row) == row.row_key = rowKey
    IN  DistinctOnColumn(OrderBy(SelectSeq(table, Match), "column_name, ref_key DESC"))

\* ------------------------------------------------------------------------
\* api.CellHandler
\* ------------------------------------------------------------------------

\* shard.ForRowKey(rowKey, h.numShards), tabulated once for the model's row keys
RowKeyShard == [u \in RowKeys |-> ForRowKey(u, NumShards)]

\* a changed routing: the version takes part in the placement
HandlerShard_WithRefKey(rowKey, columnName, refKey) ==
    (RowKeyShard[rowKey] + refKey) % NumShards

\* the shard a cell handler resolves for a request: shard.ForRowKey(rowKey, h.numShards)
HandlerShard(rowKey, columnName, refKey) == RowKeyShard[rowKey]

\* Notifier.NotifyCell(shardID, c), seen from the write path: the cell is handed
\* over and the call returns
NotifyCell(shardID, c) == notified \cup {[shard_id |-> shardID, cell |-> c]}

\* CellHandler.WriteCell, first part: the request is decoded and its shard and
\* store are resolved; an unregistered shard answers 500
WriteCellRoute(i, rowKey, columnName, refKey, body) ==
    /\ reqs[i].pc = "idle"
    /\ IF i = 1 THEN TRUE ELSE reqs[i - 1].pc # "idle"
    /\ LET shardID == HandlerShard(rowKey, columnName, refKey)
           req == [reqs[i] EXCEPT !.row_key = rowKey, !.column_name = columnName,
                                  !.ref_key = refKey, !.body = body, !.shard = shardID]
       IN  reqs' = [reqs EXCEPT ![i] =
                IF StoreFor(shardID)
                THEN [req EXCEPT !.pc = "routed"]
                ELSE [req EXCEPT !.pc = "done", !.err = "shard routing failed",
                                 !.status = 500]]
    /\ UNCHANGED <<cells, nextId, notified, idxVars, trigVars, scan, bootVars>>

\* CellHandler.WriteCell, second part: store.WriteCell; any error answers 500
WriteCellStore(i, dbOK) ==
    /\ reqs[i].pc = "routed"
    /\ LET s == reqs[i].shard
           r == StoreWriteCell(cells[s], nextId[s], reqs[i], dbOK)
       IN  /\ cells' = [cells EXCEPT ![s] = r.table]
           /\ nextId' = [nextId EXCEPT ![s] = r.seq]
           /\ reqs' = [reqs EXCEPT ![i] =
                IF r.err # "none"
                THEN [@ EXCEPT !.pc = "done", !.err = r.err, !.status = 500]
                ELSE [@ EXCEPT !.pc = "stored", !.cell = r.cell]]
    /\ UNCHANGED <<notified, idxVars, trigVars, scan, bootVars>>

\* the response of a read handler: 500 on a routing or database error, 404 on
\* ErrCellNotFound, 200 with the cells otherwise
ReadResponse(shardID, rows, dbOK, notFoundIs404) ==
    [shard |-> shardID,
     status |-> IF ~StoreFor(shardID) \/ ~dbOK THEN 500
                ELSE IF notFoundIs404 /\ rows = <<>> THEN 404 ELSE 200,
     cells |-> IF ~StoreFor(shardID) \/ ~dbOK THEN <<>> ELSE rows]

\* what CellHandler.GetCell answers in the current state
GetCellResponse(rowKey, columnName, refKey, dbOK) ==
    LET shardID == HandlerShard(rowKey, columnName, refKey)
        rows == IF StoreFor(shardID)
                THEN StoreGetCell(cells[shardID], rowKey, columnName, refKey)
                ELSE <<>>
    IN  ReadResponse(shardID, rows, dbOK, TRUE)

\* what CellHandler.GetCellLatest answers in the current state
GetCellLatestResponse(rowKey, columnName, dbOK) ==
    LET shardID == HandlerShard(rowKey, columnName, 0)
        rows == IF StoreFor(shardID)
                THEN StoreGetCellLatest(cells[shardID], rowKey, columnName)
                ELSE <<>>
    IN  ReadResponse(shardID, rows, dbOK, TRUE)

\* what CellHandler.GetRow answers in the current state; an empty row is a 200
GetRowResponse(rowKey, dbOK) ==
    LET shardID == HandlerShard(rowKey, "", 0)
        rows == IF StoreFor(shardID) THEN StoreGetRow(cells[shardID], rowKey) ELSE <<>>
    IN  ReadResponse(shardID, rows, dbOK, FALSE)

\* CellHandler.GetCell: a read changes nothing
GetCell(rowKey, columnName, refKey, dbOK) ==
    /\ GetCellResponse(rowKey, columnName, refKey, dbOK).status \in {200, 404, 500}
    /\ UNCHANGED vars

\* CellHandler.GetCellLatest: a read changes nothing
GetCellLatest(rowKey, columnName, dbOK) ==
    /\ GetCellLatestResponse(rowKey, columnName, dbOK).status \in {200, 404, 500}
    /\ UNCHANGED vars

\* CellHandler.GetRow: a read changes nothing
GetRow(rowKey, dbOK) ==
    /\ GetRowResponse(rowKey, dbOK).status \in {200, 500}
    /\ UNCHANGED vars

\* ------------------------------------------------------------------------
\* index.Registry and index.Store
\* ------------------------------------------------------------------------

\* the index definitions main registers from the index config, for every shard
UserByEmail ==
    [Name |-> "user_by_email", SourceColumn |-> "profile", ShardKeyField |-> "email",
     Fields |-> {"email"}, UniqueFields |-> {"email"}]

UserByOrg ==
    [Name |-> "user_by_org", SourceColumn |-> "profile", ShardKeyField |-> "org",
     Fields |-> {"org", "email"}, UniqueFields |-> {"email"}]

\* Registry.definitions
Definitions == {UserByEmail, UserByOrg}

IndexNames == {def.Name : def \in Definitions}

\* Registry.GetDefinition
GetDefinition(indexName) == CHOOSE def \in Definitions : def.Name = indexName

\* Registry.ForColumn: the names of the definitions whose SourceColumn matches;
\* the order of the returned slice is the iteration order of a Go map
ForColumn(columnName) == {def.Name : def \in {d \in Definitions : d.SourceColumn = columnName}}

\* all orders in which a set of names can be listed
Orders(names) ==
    {order \in [1..Cardinality(names) -> names] :
        \A a, b \in 1..Cardinality(names) : a # b => order[a] # order[b]}

\* Registry.StoreFor(indexName, shardID): RegisterRange made one store per shard
IndexStoreFor(indexName, shardID) ==
    indexName \in DOMAIN idxStores /\ shardID \in DOMAIN idxStores[indexName]

\* extractString: ok only for a field that is present and a JSON string
ExtractString(body, field) ==
    IF field \notin DOMAIN body THEN [ok |-> FALSE, value |-> <<>>]
    ELSE IF body[field].t # "string" THEN [ok |-> FALSE, value |-> <<>>]
    ELSE [ok |-> TRUE, value |-> body[field].text]

\* extractFields: the listed keys that the body has; missing keys are skipped
ExtractFields(body, fields) == [k \in (DOMAIN body) \cap fields |-> body[k]]

\* body->>'field': the text of a field, NULL (no text) for a missing one
HasText(body, field) == field \in DOMAIN body

\* a changed index: CREATE UNIQUE INDEX ... ON table (row_key, (body->>'uf'))
UniqueFieldViolated_PerRowKey(table, entry, uniqueFields) ==
    \E i \in 1..Len(table), uf \in uniqueFields :
        /\ table[i].row_key = entry.row_key
        /\ HasText(table[i].body, uf)
        /\ HasText(entry.body, uf)
        /\ table[i].body[uf].text = entry.body[uf].text

\* CREATE UNIQUE INDEX ... ON table ((body->>'uf')), one per unique field
UniqueFieldViolated(table, entry, uniqueFields) ==
    \E i \in 1..Len(table), uf \in uniqueFields :
        /\ HasText(table[i].body, uf)
        /\ HasText(entry.body, uf)
        /\ table[i].body[uf].text = entry.body[uf].text

\* Store.WriteEntry: INSERT INTO index_<name>_<shard> (shard_key, row_key, body)
WriteEntry(table, seq, entry, uniqueFields, dbOK) ==
    IF ~dbOK
    THEN [err |-> "db_error", table |-> table, seq |-> seq]
    ELSE IF UniqueFieldViolated(table, entry, uniqueFields)
    THEN [err |-> "unique_violation", table |-> table, seq |-> seq + 1]
    ELSE [err |-> "none", seq |-> seq + 1,
          table |-> Append(table, [added_id |-> seq, shard_key |-> entry.shard_key,
                                   row_key |-> entry.row_key, body |-> entry.body])]

\* Store.QueryByShardKey: WHERE shard_key = $1 ORDER BY added_id ASC
QueryByShardKey(table, shardKey) ==
    LET Match(row) == row.shard_key = shardKey
    IN  SelectSeq(table, Match)

\* the strings that occur as shard-key values or lookup values
KeyValues == {EmailAB, OrgX, OrgY}

\* shard.ForKey(key, numShards), tabulated once for the model's strings
KeyShard == [k \in KeyValues |-> ForKey(k, NumShards)]

\* a changed placement: the entry goes to the shard of its source cell
EntryShard_OfRowKey(shardKeyValue, rowKey) == RowKeyShard[rowKey]

\* the index shard an entry with this shard key is written to
EntryShard(shardKeyValue, rowKey) == KeyShard[shardKeyValue]

IdleCall ==
    [pc |-> "idle", cell |-> <<>>, defs |-> <<>>, pos |-> 0, err |-> "none",
     failed |-> "", written |-> {}]

\* Registry.IndexCell, entry: defs := r.ForColumn(c.ColumnName), listed in the
\* order the map iteration gave; with no matching definition the loop body never
\* runs and the call returns nil
IndexCellEntry(c, order) ==
    [IdleCall EXCEPT !.pc = IF order = <<>> THEN "done" ELSE "running",
                     !.cell = <<c>>, !.defs = order, !.pos = 1]

\* a changed coordinator: the index step is left out
WriteCellIndex_Skipped(i, order) ==
    /\ reqs[i].pc = "stored"
    /\ order \in Orders(ForColumn(reqs[i].cell[1].column_name))
    /\ idxCalls' = [idxCalls EXCEPT ![i] = [IdleCall EXCEPT !.pc = "done"]]
    /\ reqs' = [reqs EXCEPT ![i] = [@ EXCEPT !.pc = "indexing"]]
    /\ UNCHANGED <<cells, nextId, notified, idxStores, idxNextId, trigVars, scan, bootVars>>

\* the write coordinator's index step: after a successful store.WriteCell it
\* calls IndexCell on the index registry for the stored cell
WriteCellIndex(i, order) ==
    /\ reqs[i].pc = "stored"
    /\ order \in Orders(ForColumn(reqs[i].cell[1].column_name))
    /\ idxCalls' = [idxCalls EXCEPT ![i] = IndexCellEntry(reqs[i].cell[1], order)]
    /\ reqs' = [reqs EXCEPT ![i] = [@ EXCEPT !.pc = "indexing"]]
    /\ UNCHANGED <<cells, nextId, notified, idxStores, idxNextId, trigVars, scan, bootVars>>

\* a changed loop: the error is kept and the loop goes on to the next definition
IndexCellReturn_Continue(call, defName, msg) ==
    [call EXCEPT !.err = msg, !.failed = defName, !.pos = @ + 1,
                 !.pc = IF call.pos = Len(call.defs) THEN "done" ELSE "running"]

\* Registry.IndexCell, `return fmt.Errorf(...)` inside the loop: the call ends
\* with the error of the definition it was processing
IndexCellReturn(call, defName, msg) ==
    [call EXCEPT !.pc = "done", !.err = msg, !.failed = defName]

\* one iteration of the loop of Registry.IndexCell over defs; the first error
\* returns it
IndexCellStep(j, dbOK) ==
    /\ idxCalls[j].pc = "running"
    /\ LET call == idxCalls[j]
           c == call.cell[1]
           def == GetDefinition(call.defs[call.pos])
           key == ExtractString(c.body, def.ShardKeyField)
           shardID == EntryShard(key.value, c.row_key)
           entry == [shard_key |-> key.value, row_key |-> c.row_key,
                     body |-> ExtractFields(c.body, def.Fields)]
           Fail(msg) ==
               /\ idxCalls' = [idxCalls EXCEPT ![j] = IndexCellReturn(call, def.Name, msg)]
               /\ UNCHANGED <<idxStores, idxNextId, trigVars, scan, bootVars>>
       IN  IF ~key.ok THEN Fail("extract shard key")
           ELSE IF ~IndexStoreFor(def.Name, shardID) THEN Fail("no store for shard")
           ELSE LET r == WriteEntry(idxStores[def.Name][shardID],
                                    idxNextId[def.Name][shardID], entry,
                                    def.UniqueFields, dbOK)
                IN  /\ idxStores' = [idxStores EXCEPT ![def.Name][shardID] = r.table]
                    /\ idxNextId' = [idxNextId EXCEPT ![def.Name][shardID] = r.seq]
                    /\ idxCalls' = [idxCalls EXCEPT ![j] =
                            IF r.err # "none"
                            THEN IndexCellReturn(call, def.Name, r.err)
                            ELSE [@ EXCEPT !.pos = @ + 1,
                                           !.written = @ \cup {def.Name},
                                           !.pc = IF call.pos = Len(call.defs)
                                                  THEN "done" ELSE "running"]]
    /\ UNCHANGED <<cells, nextId, reqs, notified, trigVars, scan, bootVars>>

\* the write coordinator after IndexCell returned: an index failure is logged
\* and the write goes on
WriteCellIndexed(i) ==
    /\ reqs[i].pc = "indexing"
    /\ idxCalls[i].pc = "done"
    /\ reqs' = [reqs EXCEPT ![i] = [@ EXCEPT !.pc = "indexed", !.logged = idxCalls[i].err]]
    /\ UNCHANGED <<cells, nextId, notified, idxVars, trigVars, scan, bootVars>>

\* ------------------------------------------------------------------------
\* trigger.PluginStore: table plugins (id PRIMARY KEY, name UNIQUE)
\* ------------------------------------------------------------------------

\* PostgresPluginStore.SavePlugin: INSERT INTO plugins.  dbOK = FALSE is a
\* statement the database never ran
SavePlugin(table, p, dbOK) ==
    IF ~dbOK \/ (\E id \in DOMAIN table : id = p.ID \/ table[id].Name = p.Name)
    THEN [err |-> "save plugin", table |-> table]
    ELSE [err |-> "none",
          table |-> [id \in DOMAIN table \cup {p.ID} |->
                        IF id = p.ID THEN p ELSE table[id]]]

\* PostgresPluginStore.DeletePlugin: DELETE FROM plugins WHERE id = $1; no row
\* affected is an error
DeletePlugin(table, id, dbOK) ==
    IF ~dbOK
    THEN [err |-> "delete plugin", table |-> table]
    ELSE IF id \notin DOMAIN table
    THEN [err |-> "not found", table |-> table]
    ELSE [err |-> "none", table |-> [j \in DOMAIN table \ {id} |-> table[j]]]

\* ------------------------------------------------------------------------
\* trigger.PluginRegistry
\* ------------------------------------------------------------------------

PluginStatusActive == "active"
PluginStatusInactive == "inactive"

PluginIds == 1..MaxPlugins

\* the registrations of the notification path: a plugin without a status, one
\* on two columns, and an inactive one that shares a name with the second
NotifyPlugins ==
    {[Name |-> "audit", Endpoint |-> "http://audit/rpc",
      SubscribedColumns |-> {"avatar"}, Status |-> ""],
     [Name |-> "billing", Endpoint |-> "http://billing/rpc",
      SubscribedColumns |-> {"avatar", "profile"}, Status |-> PluginStatusActive],
     [Name |-> "billing", Endpoint |-> "http://old/rpc",
      SubscribedColumns |-> {"avatar"}, Status |-> PluginStatusInactive]}

\* the registrations the registry is sent: those, and a plugin of another column
PluginInputs ==
    NotifyPlugins \cup
        {[Name |-> "metrics", Endpoint |-> "http://metrics/rpc",
          SubscribedColumns |-> {"profile"}, Status |-> PluginStatusActive],
         [Name |-> "Billing", Endpoint |-> "http://billing2/rpc",
          SubscribedColumns |-> {"profile"}, Status |-> ""]}

\* Register, the plugin as it is stored: ID assigned, Status active by default
Registered(p, id) ==
    [ID |-> id, Name |-> p.Name, Endpoint |-> p.Endpoint,
     SubscribedColumns |-> p.SubscribedColumns,
     Status |-> IF p.Status = "" THEN PluginStatusActive ELSE p.Status]

\* a changed order: the map is updated whatever the store answered
RegisterMap_Always(map, p, saved) ==
    [id \in DOMAIN map \cup {p.ID} |-> IF id = p.ID THEN p ELSE map[id]]

\* Register, the in-memory map after store.SavePlugin answered
RegisterMap(map, p, saved) ==
    IF saved.err # "none"
    THEN map
    ELSE [id \in DOMAIN map \cup {p.ID} |-> IF id = p.ID THEN p ELSE map[id]]

\* a changed order: the plugin leaves the map whatever the store answered
DeleteMap_Always(map, id, deleted) == [j \in DOMAIN map \ {id} |-> map[j]]

\* Delete, the in-memory map after store.DeletePlugin answered
DeleteMap(map, id, deleted) ==
    IF deleted.err # "none"
    THEN map
    ELSE [j \in DOMAIN map \ {id} |-> map[j]]

\* Register with the scan of the registered names left out
NameTaken_Never(map, name) == FALSE

\* Register, the scan over r.plugins: existing.Name == p.Name
NameTaken(map, name) == \E id \in DOMAIN map : map[id].Name = name

\* PluginRegistry.Register, under the registry's lock; the ids of the model
\* are bounded, so a registration that would draw one waits when none is left
Register(input, dbOK) ==
    /\ IF NameTaken(plugins, input.Name)
       THEN /\ lastRegistry' = [op |-> "Register", id |-> 0, name |-> input.Name,
                                err |-> "already registered"]
            /\ UNCHANGED <<plugins, pluginStore, nextPluginId>>
       ELSE LET p == Registered(input, nextPluginId)
                saved == SavePlugin(pluginStore, p, dbOK)
            IN  /\ nextPluginId <= MaxPlugins
                /\ pluginStore' = saved.table
                /\ plugins' = RegisterMap(plugins, p, saved)
                /\ nextPluginId' = nextPluginId + 1
                /\ lastRegistry' = [op |-> "Register", id |-> p.ID, name |-> p.Name,
                                    err |-> IF saved.err = "none" THEN "none"
                                            ELSE "persist plugin"]
    /\ UNCHANGED <<cells, nextId, reqs, notified, idxVars, maxRetries, scan, bootVars, deliveries>>

\* PluginRegistry.Delete, under the registry's lock
Delete(id, dbOK) ==
    /\ IF id \notin DOMAIN plugins
       THEN /\ lastRegistry' = [op |-> "Delete", id |-> id, name |-> "",
                                err |-> "not found"]
            /\ UNCHANGED <<plugins, pluginStore>>
       ELSE LET deleted == DeletePlugin(pluginStore, id, dbOK)
            IN  /\ pluginStore' = deleted.table
                /\ plugins' = DeleteMap(plugins, id, deleted)
                /\ lastRegistry' = [op |-> "Delete", id |-> id,
                                    name |-> plugins[id].Name,
                                    err |-> IF deleted.err = "none" THEN "none"
                                            ELSE "persist delete"]
    /\ UNCHANGED <<cells, nextId, reqs, notified, idxVars, nextPluginId, maxRetries, scan, bootVars,
                   deliveries>>

\* PluginRegistry.Get
Get(id) ==
    IF id \in DOMAIN plugins
    THEN [err |-> "none", plugin |-> <<plugins[id]>>]
    ELSE [err |-> "not found", plugin |-> <<>>]

\* PluginRegistry.List
List == {plugins[id] : id \in DOMAIN plugins}

\* a changed filter: the status of a plugin is not looked at
PluginsForColumn_AnyStatus(columnName) ==
    {p \in List : columnName \in p.SubscribedColumns}

\* PluginRegistry.ForColumn: the active plugins subscribed to the column
PluginsForColumn(columnName) ==
    {p \in List : p.Status = PluginStatusActive /\ columnName \in p.SubscribedColumns}

\* the plugin handlers' reads change nothing
ReadPlugins(id, columnName) ==
    /\ Get(id).err \in {"none", "not found"}
    /\ PluginsForColumn(columnName) \subseteq List
    /\ UNCHANGED vars

\* ------------------------------------------------------------------------
\* trigger.RPCClient
\* ------------------------------------------------------------------------

\* what becomes of one POST: status 0 is a request that did not reach the
\* endpoint (connection refused, host not resolved), so that httpClient.Do
\* returns an error; the body of a 200 is a JSON-RPC result, a JSON-RPC error
\* object, or not JSON
NoReply == [status |-> 0, body |-> "none"]
PluginReplies ==
    {NoReply, [status |-> 500, body |-> "none"], [status |-> 200, body |-> "error"],
     [status |-> 200, body |-> "result"]}
Replies ==
    PluginReplies \cup
        {[status |-> 404, body |-> "none"], [status |-> 200, body |-> "garbage"]}

\* a changed decoding: a reply that carries a JSON-RPC error object is an error
DoRequest_ErrorObjectIsError(reply) ==
    IF reply.status = 0 THEN [err |-> "http request", resp |-> "none"]
    ELSE IF reply.status >= 500 THEN [err |-> "server error", resp |-> "none"]
    ELSE IF reply.status # 200 THEN [err |-> "unexpected status", resp |-> "none"]
    ELSE IF reply.body \in {"garbage", "error"}
    THEN [err |-> "unmarshal response", resp |-> "none"]
    ELSE [err |-> "none", resp |-> reply.body]

\* RPCClient.doRequest, from the HTTP exchange on
DoRequest(reply) ==
    IF reply.status = 0 THEN [err |-> "http request", resp |-> "none"]
    ELSE IF reply.status >= 500 THEN [err |-> "server error", resp |-> "none"]
    ELSE IF reply.status # 200 THEN [err |-> "unexpected status", resp |-> "none"]
    ELSE IF reply.body = "garbage" THEN [err |-> "unmarshal response", resp |-> "none"]
    ELSE [err |-> "none", resp |-> reply.body]

\* a call of RPCClient.Call that has not started its loop
NewCall(i, pluginName, endpoint, params, ctx) ==
    [req |-> i, plugin |-> pluginName, endpoint |-> endpoint, method |-> "cell.written",
     params |-> params, ctx |-> ctx, ctxDone |-> FALSE, pc |-> "pending", attempt |-> 0,
     posts |-> 0, last |-> NoReply, only5xx |-> TRUE, reached |-> FALSE, result |-> "none",
     logged |-> "none"]

\* a changed check: the context is not looked at
CtxErr_Ignored(d) == FALSE

\* ctx.Err() != nil
CtxErr(d) == d.ctxDone

\* what the goroutine of NotifyCell logs when Call returned; another caller
\* of Call logs nothing
Logged(d, result) ==
    IF d.req = 0 \/ result = "ok" THEN "none"
    ELSE IF result = "rpc_error" THEN "trigger rpc returned error"
    ELSE "trigger rpc failed"

\* Call returns: the call is over
Return(d, result) == [d EXCEPT !.pc = "done", !.result = result, !.logged = Logged(d, result)]

\* a changed policy: no attempt after the first
MayRetry_Never(attempt, retries) == FALSE

\* a changed bound: one attempt more than maxRetries + 1
MayRetry_OneMore(attempt, retries) == attempt <= retries

\* Call, after a failed attempt: attempt < c.maxRetries
MayRetry(attempt, retries) == attempt < retries

\* a changed loop: the first error ends the call
AfterAttempt_NoRetry(d, reply, retries) ==
    LET r == DoRequest(reply)
    IN  IF r.err = "none"
        THEN Return(d, IF r.resp = "error" THEN "rpc_error" ELSE "ok")
        ELSE Return(d, "failed")

\* Call, the rest of one turn of its loop once doRequest returned
AfterAttempt(d, reply, retries) ==
    LET r == DoRequest(reply)
    IN  IF r.err = "none"
        THEN Return(d, IF r.resp = "error" THEN "rpc_error" ELSE "ok")
        ELSE IF MayRetry(d.attempt, retries)
        THEN [d EXCEPT !.pc = "backoff"]
        ELSE Return(d, "failed")

\* Call, the head of one turn of its loop: ctx.Err() is looked at, then
\* doRequest sends the POST
CallSend(k) ==
    /\ k \in DOMAIN deliveries
    /\ deliveries[k].pc = "pending"
    /\ deliveries' = [deliveries EXCEPT ![k] =
            IF CtxErr(@)
            THEN Return(@, "ctx")
            ELSE [@ EXCEPT !.pc = "trying", !.posts = @ + 1]]
    /\ UNCHANGED <<cells, nextId, reqs, notified, idxVars, registryVars, maxRetries, scan, bootVars>>

\* a changed goroutine: a call that ends in a failure fails the write that
\* started it
CallReceive_FailsWrite(k, reply) ==
    /\ k \in DOMAIN deliveries
    /\ deliveries[k].pc = "trying"
    /\ LET d == deliveries[k]
           got == IF d.ctxDone THEN NoReply ELSE reply
           seen == [d EXCEPT !.last = got,
                             !.only5xx = @ /\ (got.status >= 500 \/ got.status = 200),
                             !.reached = @ \/ got.status # 0]
           after == AfterAttempt(seen, got, maxRetries)
       IN  /\ deliveries' = [deliveries EXCEPT ![k] = after]
           /\ reqs' = IF after.result \in {"failed", "rpc_error"} /\ d.req \in WriteIds
                      THEN [reqs EXCEPT ![d.req] = [@ EXCEPT !.status = 500]]
                      ELSE reqs
    /\ UNCHANGED <<cells, nextId, notified, idxVars, registryVars, maxRetries, scan, bootVars>>

\* Call, the end of one turn: doRequest returns with what the endpoint did.
\* Under a context that is done the exchange fails with the context's error
CallReceive(k, reply) ==
    /\ k \in DOMAIN deliveries
    /\ deliveries[k].pc = "trying"
    /\ LET d == deliveries[k]
           got == IF d.ctxDone THEN NoReply ELSE reply
           seen == [d EXCEPT !.last = got,
                             !.only5xx = @ /\ (got.status >= 500 \/ got.status = 200),
                             !.reached = @ \/ got.status # 0]
       IN  deliveries' = [deliveries EXCEPT ![k] = AfterAttempt(seen, got, maxRetries)]
    /\ UNCHANGED <<cells, nextId, reqs, notified, idxVars, registryVars, maxRetries, scan, bootVars>>

\* Call, between two attempts: select on ctx.Done() and time.After(delay).
\* elapsed = FALSE is the branch of ctx.Done()
CallBackoff(k, elapsed) ==
    /\ k \in DOMAIN deliveries
    /\ deliveries[k].pc = "backoff"
    /\ elapsed \/ deliveries[k].ctxDone
    /\ deliveries' = [deliveries EXCEPT ![k] =
            IF elapsed
            THEN [@ EXCEPT !.pc = "pending", !.attempt = @ + 1]
            ELSE Return(@, "ctx")]
    /\ UNCHANGED <<cells, nextId, reqs, notified, idxVars, registryVars, maxRetries, scan, bootVars>>

\* the context of a call is cancelled or its deadline passes; context.Background()
\* is never done
Cancel(k) ==
    /\ k \in DOMAIN deliveries
    /\ deliveries[k].ctx = "cancellable"
    /\ deliveries[k].pc # "done"
    /\ ~deliveries[k].ctxDone
    /\ deliveries' = [deliveries EXCEPT ![k] = [@ EXCEPT !.ctxDone = TRUE]]
    /\ UNCHANGED <<cells, nextId, reqs, notified, idxVars, registryVars, maxRetries, scan, bootVars>>

\* RPCClient.Call(ctx, endpoint, "cell.written", nil) by a caller that owns ctx
Call(endpoint) ==
    /\ Len(deliveries) < MaxCalls
    /\ deliveries' = Append(deliveries, NewCall(0, "", endpoint, <<>>, "cancellable"))
    /\ UNCHANGED <<cells, nextId, reqs, notified, idxVars, registryVars, maxRetries, scan, bootVars>>

\* ------------------------------------------------------------------------
\* trigger.Notifier
\* ------------------------------------------------------------------------

HexDigits == <<"0", "1", "2", "3", "4", "5", "6", "7", "8", "9", "a", "b", "c", "d", "e", "f">>

\* uuid.UUID.String: xxxxxxxx-xxxx-xxxx-xxxx-xxxxxxxxxxxx in lower-case hex
UUIDString(u) ==
    [p \in 1..36 |->
        IF p \in {9, 14, 19, 24}
        THEN "-"
        ELSE LET q == p - Cardinality({x \in {9, 14, 19, 24} : x < p})
                 b == u[(q + 1) \div 2]
             IN  HexDigits[(IF q % 2 = 1 THEN b \div 16 ELSE b % 16) + 1]]

\* the string form of the model's row keys
RowKeyString == [u \in RowKeys |-> UUIDString(u)]

\* NotifyCell: the params of the notification
CellWrittenParams(shardID, c) ==
    [added_id |-> c.added_id, row_key |-> RowKeyString[c.row_key],
     column_name |-> c.column_name, ref_key |-> c.ref_key, body |-> c.body,
     created_at |-> c.created_at, shard_id |-> shardID]

\* a set as a sequence, in some order
RECURSIVE SeqOf(_)
SeqOf(set) ==
    IF set = {} THEN <<>>
    ELSE LET x == CHOOSE y \in set : TRUE IN <<x>> \o SeqOf(set \ {x})

\* NotifyCell: one goroutine for each plugin of ForColumn(c.ColumnName), each
\* about to call RPCClient.Call under context.Background()
NotifyCellTasks(i, shardID, c) ==
    deliveries \o
        [k \in 1..Cardinality(PluginsForColumn(c.column_name)) |->
            LET p == SeqOf(PluginsForColumn(c.column_name))[k]
            IN  NewCall(i, p.Name, p.Endpoint, CellWrittenParams(shardID, c),
                        "background")]

\* a changed hand-over: the handler starts the calls and answers when they are over
WriteCellNotify_Waits(i) ==
    /\ reqs[i].pc = "indexed"
    /\ IF [shard_id |-> reqs[i].shard, cell |-> reqs[i].cell[1]] \notin notified
       THEN /\ notified' = NotifyCell(reqs[i].shard, reqs[i].cell[1])
            /\ deliveries' = NotifyCellTasks(i, reqs[i].shard, reqs[i].cell[1])
            /\ UNCHANGED reqs
       ELSE /\ \A k \in DOMAIN deliveries :
                    deliveries[k].req = i => deliveries[k].pc = "done"
            /\ reqs' = [reqs EXCEPT ![i] = [@ EXCEPT !.pc = "done", !.status = 201]]
            /\ UNCHANGED <<notified, deliveries>>
    /\ UNCHANGED <<cells, nextId, idxVars, registryVars, maxRetries, scan, bootVars>>

\* a changed response: a failed index step fails the request
WriteCellNotify_FailOnIndexError(i) ==
    /\ reqs[i].pc = "indexed"
    /\ notified' = NotifyCell(reqs[i].shard, reqs[i].cell[1])
    /\ deliveries' = NotifyCellTasks(i, reqs[i].shard, reqs[i].cell[1])
    /\ reqs' = [reqs EXCEPT ![i] =
            [@ EXCEPT !.pc = "done",
                      !.status = IF reqs[i].logged = "none" THEN 201 ELSE 500]]
    /\ UNCHANGED <<cells, nextId, idxVars, registryVars, maxRetries, scan, bootVars>>

\* CellHandler.WriteCell, last part: NotifyCell, then the 201 response
WriteCellNotify(i) ==
    /\ reqs[i].pc = "indexed"
    /\ notified' = NotifyCell(reqs[i].shard, reqs[i].cell[1])
    /\ deliveries' = NotifyCellTasks(i, reqs[i].shard, reqs[i].cell[1])
    /\ reqs' = [reqs EXCEPT ![i] = [@ EXCEPT !.pc = "done", !.status = 201]]
    /\ UNCHANGED <<cells, nextId, idxVars, registryVars, maxRetries, scan, bootVars>>

\* what IndexHandler.QueryIndex answers in the current state: the store of shard
\* ForKey(value); an unknown index answers 404, a query error 500
QueryIndexResponse(indexName, value, dbOK) ==
    LET shardID == KeyShard[value]
        found == IndexStoreFor(indexName, shardID)
    IN  [shard |-> shardID,
         status |-> IF ~found THEN 404 ELSE IF ~dbOK THEN 500 ELSE 200,
         entries |-> IF found /\ dbOK
                     THEN QueryByShardKey(idxStores[indexName][shardID], value)
                     ELSE <<>>]

\* IndexHandler.QueryIndex: a read changes nothing
QueryIndex(indexName, value, dbOK) ==
    /\ QueryIndexResponse(indexName, value, dbOK).status \in {200, 404, 500}
    /\ UNCHANGED vars

\* ------------------------------------------------------------------------
\* The cell path: concurrent write requests and reads
\* ------------------------------------------------------------------------

\* circuitbreaker.State
Closed == 0
Open == 1
HalfOpen == 2

ErrCircuitOpen == "circuit breaker is open"

\* circuitbreaker.New; the zero time.Time of lastFailureTime is instant 0
New(maxFailures, resetTimeout) ==
    [state |-> Closed, failures |-> 0, maxFailures |-> maxFailures,
     resetTimeout |-> resetTimeout, lastFailureTime |-> 0]

\* the goroutines that call Breaker.Execute
Goroutines == 1..MaxGoroutines

\* a goroutine outside Execute: what its last call returned, whether that call
\* ran fn, and the state the breaker was in when it let the call through
IdleExec == [pc |-> "idle", err |-> "none", ran |-> FALSE, admitted |-> Closed]

\* the stores, the handlers and the registry after start-up on empty tables
InitStores ==
    /\ cells = [s \in ShardIDs |-> <<>>]
    /\ nextId = [s \in ShardIDs |-> 1]
    /\ reqs = [i \in WriteIds |-> IdleReq]
    /\ notified = {}
    /\ idxStores = [n \in IndexNames |-> [s \in ShardIDs |-> <<>>]]
    /\ idxNextId = [n \in IndexNames |-> [s \in ShardIDs |-> 1]]
    /\ idxCalls = [i \in WriteIds |-> IdleCall]
    /\ plugins = <<>>
    /\ pluginStore = <<>>
    /\ nextPluginId = 1
    /\ lastRegistry = [op |-> "none", id |-> 0, name |-> "", err |-> "none"]
    /\ deliveries = <<>>
    /\ scan = [pc |-> "idle", readType |-> 0, partition |-> 0, limit |-> 0, start |-> 0,
               cursor |-> [kind |-> "empty", added_id |-> 0, created_at |-> ""],
               cells |-> <<>>, pages |-> 0]
    /\ hashed = <<>>
    /\ shardCfg = [pc |-> "none", backends |-> <<>>, numShards |-> 0, err |-> "none"]
    /\ health = [pc |-> "idle", pings |-> <<>>, status |-> 0, body |-> <<>>]
    /\ execs = [calls |-> [g \in Goroutines |-> IdleExec], started |-> 0]
    /\ now = 1
    /\ watcher = [pc |-> "stopped", from |-> 0, lastAddedID |-> 0, batch |-> <<>>]
    /\ checkpoint = <<>>
    /\ processed = {}
    /\ lostReplies = {}

Init ==
    /\ InitStores
    /\ maxRetries = TriggerRetryMax
    /\ breaker = New(5, 30)

\* the writes of the cell path: one cell on each row key, every version and
\* body on one (row_key, column_name), and another column of that row key
CellPathWrites ==
    {<<rowKey, "avatar", 1, BodyABX>> : rowKey \in RowKeys}
        \cup {<<UUID(1), "avatar", refKey, body>> : refKey \in RefKeys, body \in CellBodies}
        \cup {<<UUID(1), "settings", 2, BodyX>>}

Next ==
    \/ \E i \in WriteIds, w \in CellPathWrites :
            WriteCellRoute(i, w[1], w[2], w[3], w[4])
    \/ \E i \in WriteIds, dbOK \in BOOLEAN : WriteCellStore(i, dbOK)
    \/ \E i \in WriteIds : WriteCellIndex(i, <<>>)
    \/ \E i \in WriteIds : WriteCellIndexed(i)
    \/ \E i \in WriteIds : WriteCellNotify(i)
    \/ \E rowKey \in RowKeys, columnName \in CellColumns, refKey \in RefKeys,
          dbOK \in BOOLEAN : GetCell(rowKey, columnName, refKey, dbOK)
    \/ \E rowKey \in RowKeys, columnName \in CellColumns, dbOK \in BOOLEAN :
            GetCellLatest(rowKey, columnName, dbOK)
    \/ \E rowKey \in RowKeys, dbOK \in BOOLEAN : GetRow(rowKey, dbOK)

Spec == Init /\ [][Next]_vars

\* ------------------------------------------------------------------------
\* Properties of the cell path
\* ------------------------------------------------------------------------

\* the cells that successful write requests got back from store.WriteCell
Written == {reqs[i].cell[1] : i \in {w \in WriteIds : reqs[w].cell # <<>>}}

\* C1 (immutability): once a write of (row_key, column_name, ref_key) has
\* succeeded, a later write of the same triple, with the same or another body,
\* never succeeds: the statement that reaches the database fails on the
\* unique constraint and the table stays as it was; GetCell of the triple
\* answers the cell of the first write, body included; and no step updates or
\* deletes a stored row (each table only grows at its end).
C1_Immutability ==
    /\ [](\A i \in WriteIds :
            reqs[i].cell # <<>> =>
                LET got == GetCellResponse(reqs[i].row_key, reqs[i].column_name,
                                           reqs[i].ref_key, TRUE)
                IN  /\ got.status = 200
                    /\ got.cells = reqs[i].cell
                    /\ got.cells[1].body = reqs[i].body)
    /\ [][/\ \A s \in ShardIDs : SubSeq(cells'[s], 1, Len(cells[s])) = cells[s]
          /\ \A i \in WriteIds :
                (/\ reqs[i].pc = "routed"
                 /\ reqs'[i].pc # "routed"
                 /\ UniqueRefViolated(cells[reqs[i].shard], reqs[i]))
                => /\ cells' = cells
                   /\ reqs'[i].cell = <<>>
                   /\ reqs'[i].err = IF nextId' = nextId THEN "db_error"
                                     ELSE "unique_violation"]_vars

\* C1: the first write stored one body and a later write of the same triple
\* with another body has failed on the unique constraint
C1_Witness ==
    \E i, j \in WriteIds :
        /\ reqs[i].cell # <<>>
        /\ reqs[j].pc = "done"
        /\ reqs[j].err = "unique_violation"
        /\ SameRef(reqs[i], reqs[j].row_key, reqs[j].column_name, reqs[j].ref_key)
        /\ reqs[i].body # reqs[j].body

\* C2 (contention): of the write requests for one (row_key, column_name,
\* ref_key), at most one succeeds, and the shard table holds at most one row
\* of the triple.
C2_AtMostOneSucceeds ==
    /\ \A i, j \in WriteIds :
            (/\ i # j
             /\ reqs[i].pc # "idle"
             /\ reqs[j].pc # "idle"
             /\ SameRef(reqs[i], reqs[j].row_key, reqs[j].column_name, reqs[j].ref_key))
            => ~(reqs[i].cell # <<>> /\ reqs[j].cell # <<>>)
    /\ \A s \in ShardIDs : \A a, b \in 1..Len(cells[s]) :
            SameRef(cells[s][a], cells[s][b].row_key, cells[s][b].column_name,
                    cells[s][b].ref_key) => a = b

\* C2: two requests for one triple overlap: the one that started first lost
\* on the unique constraint to the second, which has not answered yet
C2_Witness ==
    /\ reqs[1].err = "unique_violation"
    /\ reqs[2].pc = "stored"
    /\ SameRef(reqs[1], reqs[2].row_key, reqs[2].column_name, reqs[2].ref_key)

\* C3 (placement): every write request and every read of a row key resolves
\* shard ForRowKey(row_key, N), whatever the column and version, and every
\* stored row lies in the table of that shard.
C3_RowKeyPlacement ==
    /\ \A i \in WriteIds :
            reqs[i].pc # "idle" => reqs[i].shard = RowKeyShard[reqs[i].row_key]
    /\ \A s \in ShardIDs : \A k \in 1..Len(cells[s]) :
            s = RowKeyShard[cells[s][k].row_key]
    /\ \A rowKey \in RowKeys :
            /\ GetRowResponse(rowKey, TRUE).shard = RowKeyShard[rowKey]
            /\ \A columnName \in ColumnNames :
                    /\ GetCellLatestResponse(rowKey, columnName, TRUE).shard
                            = RowKeyShard[rowKey]
                    /\ \A refKey \in RefKeys :
                            GetCellResponse(rowKey, columnName, refKey, TRUE).shard
                                = RowKeyShard[rowKey]

\* C3: one shard table holds two cells of one row key that differ in column
\* and in version, and the other row key lives on another shard
C3_Witness ==
    /\ \E s \in ShardIDs : \E a, b \in 1..Len(cells[s]) :
            /\ cells[s][a].row_key = cells[s][b].row_key
            /\ cells[s][a].column_name # cells[s][b].column_name
            /\ cells[s][a].ref_key # cells[s][b].ref_key
    /\ \E u, v \in RowKeys : RowKeyShard[u] # RowKeyShard[v]

\* C4 (latest version): GetCellLatest(r, c) answers the written cell of (r, c)
\* with the greatest ref_key, and 404 when none was written; GetRow(r) answers
\* exactly the written cells of r that have the greatest ref_key of their
\* column, one per column.
C4_LatestReads ==
    \A rowKey \in RowKeys :
        LET AtRow == {c \in Written : c.row_key = rowKey}
            Newest == {c \in AtRow : \A d \in AtRow :
                            d.column_name = c.column_name => d.ref_key <= c.ref_key}
            row == GetRowResponse(rowKey, TRUE)
        IN  /\ row.status = 200
            /\ {row.cells[k] : k \in 1..Len(row.cells)} = Newest
            /\ Len(row.cells) = Cardinality({c.column_name : c \in AtRow})
            /\ \A columnName \in ColumnNames :
                    LET latest == GetCellLatestResponse(rowKey, columnName, TRUE)
                        NewestOf == {c \in Newest : c.column_name = columnName}
                    IN  IF NewestOf = {}
                        THEN latest.status = 404 /\ latest.cells = <<>>
                        ELSE /\ latest.status = 200
                             /\ Len(latest.cells) = 1
                             /\ latest.cells[1] \in NewestOf

\* C4: version 2 of a cell was written before version 1, so the greatest
\* ref_key is not the last row inserted, and GetCellLatest answers version 2
C4_Witness ==
    \E a, b \in Written :
        /\ a.row_key = b.row_key
        /\ a.column_name = b.column_name
        /\ a.ref_key = 2
        /\ b.ref_key = 1
        /\ a.added_id < b.added_id
        /\ GetCellLatestResponse(a.row_key, a.column_name, TRUE).cells = <<a>>

\* C5 (duplicate is a client error): a write that fails because its triple
\* exists is answered with a 4xx status, and only the other storage failures
\* are answered 500.
C5_DuplicateIsClientError ==
    \A i \in WriteIds :
        reqs[i].pc = "done" =>
            /\ reqs[i].err = "unique_violation" => reqs[i].status \in 400..499
            /\ reqs[i].err = "db_error" => reqs[i].status = 500

\* ------------------------------------------------------------------------
\* The index path: writes of one version per cell with their index step, and
\* index queries
\* ------------------------------------------------------------------------

\* the writes of the index path: one body on the source column for each row
\* key, every body for one row key, and one write of a column no index reads
IndexPathWrites ==
    {<<rowKey, "profile", BodyABX>> : rowKey \in RowKeys}
        \cup {<<UUID(2), "profile", body>> : body \in Bodies}
        \cup {<<UUID(1), "settings", BodyABX>>}

\* the index lookups: each index by the values of its shard key field, and an
\* index that is not registered
IndexQueries ==
    {<<"user_by_email", EmailAB>>, <<"user_by_org", OrgX>>, <<"user_by_org", OrgY>>,
     <<"unknown", EmailAB>>}

NextIndex ==
    \/ \E i \in WriteIds, w \in IndexPathWrites : WriteCellRoute(i, w[1], w[2], 1, w[3])
    \/ \E i \in WriteIds : WriteCellStore(i, TRUE)
    \/ \E i \in WriteIds, order \in Orders(IndexNames) \cup {<<>>} :
            WriteCellIndex(i, order)
    \/ \E j \in WriteIds, dbOK \in BOOLEAN : IndexCellStep(j, dbOK)
    \/ \E i \in WriteIds : WriteCellIndexed(i)
    \/ \E i \in WriteIds : WriteCellNotify(i)
    \/ \E q \in IndexQueries, dbOK \in BOOLEAN : QueryIndex(q[1], q[2], dbOK)

SpecIndex == Init /\ [][NextIndex]_vars

\* ------------------------------------------------------------------------
\* Properties of the index path
\* ------------------------------------------------------------------------

\* the definitions an IndexCell call tried: those it wrote and the one it failed on
Attempted(call) == call.written \cup (IF call.failed = "" THEN {} ELSE {call.failed})

C8_FailureDoesNotAbort ==
    \A i \in WriteIds :
        (idxCalls[i].pc = "done" /\ idxCalls[i].err # "none") =>
            /\ idxCalls[i].failed # ""
            /\ Attempted(idxCalls[i]) = {idxCalls[i].defs[k] : k \in 1..Len(idxCalls[i].defs)}

\* C8 (amended): IndexCell returns at the first definition, in the order the
\* map iteration listed them, whose shard-key extraction or index write fails,
\* and reports that error: the definitions before it have their entries
\* written and keep them, the failing one and those after it get none from
\* this call, and a call that has returned writes nothing more.
C8_FirstFailureReturns ==
    /\ [](\A i \in WriteIds :
            LET call == idxCalls[i]
                Wrote(defName) ==
                    \E s \in ShardIDs : \E k \in 1..Len(idxStores[defName][s]) :
                        /\ idxStores[defName][s][k].row_key = call.cell[1].row_key
                        /\ idxStores[defName][s][k].body
                                = ExtractFields(call.cell[1].body,
                                                GetDefinition(defName).Fields)
            IN  call.pc = "done" =>
                    /\ \A d \in call.written : Wrote(d)
                    /\ IF call.err = "none"
                       THEN /\ call.failed = ""
                            /\ call.written = {call.defs[k] : k \in 1..Len(call.defs)}
                       ELSE /\ call.pos <= Len(call.defs)
                            /\ call.failed = call.defs[call.pos]
                            /\ call.written = {call.defs[k] : k \in 1..(call.pos - 1)})
    /\ [][\A i \in WriteIds :
            idxCalls[i].pc = "done" =>
                /\ idxCalls'[i] = idxCalls[i]
                /\ (\A j \in WriteIds : idxCalls[j].pc = "done") => idxStores' = idxStores]_vars

\* C8: one call failed on its first definition and left the second, whose
\* write would have gone through, without an entry; another call wrote its
\* first definition and failed on its second
C8_Witness ==
    /\ \E i \in WriteIds :
            /\ idxCalls[i].pc = "done"
            /\ idxCalls[i].defs = <<"user_by_email", "user_by_org">>
            /\ idxCalls[i].err = "extract shard key"
            /\ idxCalls[i].written = {}
            /\ \A s \in ShardIDs : \A k \in 1..Len(idxStores["user_by_org"][s]) :
                    idxStores["user_by_org"][s][k].row_key # idxCalls[i].cell[1].row_key
    /\ \E j \in WriteIds :
            /\ idxCalls[j].pc = "done"
            /\ idxCalls[j].written = {"user_by_org"}
            /\ idxCalls[j].failed = "user_by_email"

\* C9 (index placement): every index entry lies in the table of shard
\* ForKey(shard_key, N) of its own index, whatever shard holds its source
\* cell, and a query of the index for that shard_key value is routed to that
\* shard and answers the entry.
C9_IndexShardByKey ==
    \A name \in IndexNames : \A s \in ShardIDs : \A k \in 1..Len(idxStores[name][s]) :
        LET e == idxStores[name][s][k]
            q == QueryIndexResponse(name, e.shard_key, TRUE)
        IN  /\ s = ForKey(e.shard_key, NumShards)
            /\ q.status = 200
            /\ q.shard = s
            /\ \E m \in 1..Len(q.entries) : q.entries[m] = e

\* C9: an entry lies on another shard than its source cell, and the query by
\* its shard key finds it there
C9_Witness ==
    \E i \in WriteIds : \E name \in IndexNames : \E s \in ShardIDs :
        \E k \in 1..Len(idxStores[name][s]) :
            /\ reqs[i].cell # <<>>
            /\ name \in idxCalls[i].written
            /\ idxStores[name][s][k].row_key = reqs[i].row_key
            /\ s # reqs[i].shard
            /\ s # ForRowKey(reqs[i].row_key, NumShards)
            /\ QueryIndexResponse(name, idxStores[name][s][k].shard_key, TRUE).entries
                    = <<idxStores[name][s][k]>>

\* the email text of a cell body, <<>> when it has none that is a string
EmailOf(body) == ExtractString(body, "email").value

\* C10 as claimed: with unique_fields = [email], of two writes of the source
\* column whose bodies carry the same email, only one gets an entry in an index.
C10_OneEntryPerEmail ==
    \A name \in IndexNames : \A i, j \in WriteIds :
        (/\ i # j
         /\ "email" \in GetDefinition(name).UniqueFields
         /\ reqs[i].cell # <<>>
         /\ reqs[j].cell # <<>>
         /\ EmailOf(reqs[i].body) # <<>>
         /\ EmailOf(reqs[i].body) = EmailOf(reqs[j].body))
        => ~(name \in idxCalls[i].written /\ name \in idxCalls[j].written)

\* C10 (amended): uniqueness holds within one index shard table: no table of
\* an index with unique_fields = [email] holds two entries with the same
\* email; of two writes whose entries for that index are routed to the same
\* index shard (always so when email is the shard key field) and carry the
\* same email, only one gets its entry; and an index write that reaches the
\* database while its table holds an entry with that email fails on the
\* unique index, which IndexCell returns, leaving the table as it was.
C10_OneEntryPerEmailAndShard ==
    /\ []( /\ \A name \in IndexNames : \A s \in ShardIDs :
                \A a, b \in 1..Len(idxStores[name][s]) :
                    (/\ "email" \in GetDefinition(name).UniqueFields
                     /\ HasText(idxStores[name][s][a].body, "email")
                     /\ HasText(idxStores[name][s][b].body, "email")
                     /\ idxStores[name][s][a].body["email"].text
                            = idxStores[name][s][b].body["email"].text)
                    => a = b
           /\ \A name \in IndexNames : \A i, j \in WriteIds :
                LET ki == ExtractString(reqs[i].body, GetDefinition(name).ShardKeyField)
                    kj == ExtractString(reqs[j].body, GetDefinition(name).ShardKeyField)
                IN  (/\ i # j
                     /\ "email" \in GetDefinition(name).UniqueFields
                     /\ reqs[i].cell # <<>>
                     /\ reqs[j].cell # <<>>
                     /\ EmailOf(reqs[i].body) # <<>>
                     /\ EmailOf(reqs[i].body) = EmailOf(reqs[j].body)
                     /\ ki.ok
                     /\ kj.ok
                     /\ KeyShard[ki.value] = KeyShard[kj.value])
                    => ~(name \in idxCalls[i].written /\ name \in idxCalls[j].written))
    /\ [][\A i \in WriteIds :
            LET call == idxCalls[i]
                def == GetDefinition(call.defs[call.pos])
                key == ExtractString(call.cell[1].body, def.ShardKeyField)
                s == KeyShard[key.value]
                entry == [shard_key |-> key.value, row_key |-> call.cell[1].row_key,
                          body |-> ExtractFields(call.cell[1].body, def.Fields)]
            IN  (/\ call.pc = "running"
                 /\ idxCalls'[i] # call
                 /\ key.ok
                 /\ idxNextId'[def.Name][s] # idxNextId[def.Name][s]
                 /\ UniqueFieldViolated(idxStores[def.Name][s], entry, def.UniqueFields))
                => /\ idxCalls'[i].pc = "done"
                   /\ idxCalls'[i].err = "unique_violation"
                   /\ idxCalls'[i].failed = def.Name
                   /\ idxStores' = idxStores]_vars

\* C10: two writes of different row keys carried the same email; the first
\* got the entry of user_by_email, the index step of the second returned the
\* unique violation, and the index holds one entry
C10_Witness ==
    \E i, j \in WriteIds :
        /\ reqs[i].row_key # reqs[j].row_key
        /\ EmailOf(reqs[i].body) = EmailAB
        /\ EmailOf(reqs[j].body) = EmailAB
        /\ "user_by_email" \in idxCalls[i].written
        /\ idxCalls[j].pc = "done"
        /\ idxCalls[j].err = "unique_violation"
        /\ idxCalls[j].failed = "user_by_email"
        /\ Len(idxStores["user_by_email"][KeyShard[EmailAB]]) = 1

\* ------------------------------------------------------------------------
\* The plugin registry: registrations and deletions over a store that may fail
\* ------------------------------------------------------------------------

NextRegistry ==
    \/ \E input \in PluginInputs, dbOK \in BOOLEAN : Register(input, dbOK)
    \/ \E id \in PluginIds, dbOK \in BOOLEAN : Delete(id, dbOK)
    \/ \E id \in PluginIds, columnName \in ColumnNames : ReadPlugins(id, columnName)

SpecRegistry == Init /\ [][NextRegistry]_vars

\* ------------------------------------------------------------------------
\* The RPC client: calls under a context their caller may cancel
\* ------------------------------------------------------------------------

\* start-up with TRIGGER_RETRY_MAX set in the environment
InitTrigger ==
    /\ InitStores
    /\ maxRetries \in 0..RetryBound
    /\ breaker = New(5, 30)

CallIds == 1..(MaxCalls + MaxWrites * MaxPlugins)

NextRPC ==
    \/ Call("http://audit/rpc")
    \/ \E k \in CallIds : CallSend(k)
    \/ \E k \in CallIds, reply \in Replies : CallReceive(k, reply)
    \/ \E k \in CallIds, elapsed \in BOOLEAN : CallBackoff(k, elapsed)
    \/ \E k \in CallIds : Cancel(k)

SpecRPC == InitTrigger /\ [][NextRPC]_vars

\* ------------------------------------------------------------------------
\* The notification path: writes with plugins registered, and the deliveries
\* NotifyCell starts
\* ------------------------------------------------------------------------

\* the write of the notification path: one request, of a column two plugins
\* may subscribe to or of a column no plugin subscribes to
NotifyWriteIds == {1}

NotifyPathWrites == {<<UUID(1), "avatar", BodyX>>, <<UUID(2), "settings", BodyABX>>}

\* the POSTs of the notification path are refused, or answered by a 5xx, a
\* JSON-RPC error or a JSON-RPC result
NextNotify ==
    \/ \E input \in NotifyPlugins : Register(input, TRUE)
    \/ \E id \in PluginIds : Delete(id, TRUE)
    \/ \E i \in NotifyWriteIds, w \in NotifyPathWrites :
            WriteCellRoute(i, w[1], w[2], 1, w[3])
    \/ \E i \in NotifyWriteIds : WriteCellStore(i, TRUE)
    \/ \E i \in NotifyWriteIds : WriteCellIndex(i, <<>>)
    \/ \E i \in NotifyWriteIds : WriteCellIndexed(i)
    \/ \E i \in NotifyWriteIds : WriteCellNotify(i)
    \/ \E k \in CallIds : CallSend(k)
    \/ \E k \in CallIds, reply \in PluginReplies : CallReceive(k, reply)
    \/ \E k \in CallIds : CallBackoff(k, TRUE)

SpecNotify == InitTrigger /\ [][NextNotify]_vars

\* ------------------------------------------------------------------------
\* Properties of the notification path
\* ------------------------------------------------------------------------

\* the value of a lower-case hex digit
HexValue(ch) == CHOOSE n \in 0..15 : HexDigits[n + 1] = ch

\* the place of the q-th hex digit in the 36 characters of a UUID string
HexPlace(q) ==
    q + (IF q > 8 THEN 1 ELSE 0) + (IF q > 12 THEN 1 ELSE 0)
      + (IF q > 16 THEN 1 ELSE 0) + (IF q > 20 THEN 1 ELSE 0)

\* str is the string form of the 16 bytes of rowKey
IsStringOf(str, rowKey) ==
    /\ DOMAIN str = 1..36
    /\ \A b \in 1..16 :
            16 * HexValue(str[HexPlace(2 * b - 1)]) + HexValue(str[HexPlace(2 * b)])
                = rowKey[b]

\* the calls NotifyCell adds in a step
Launched == {deliveries'[k] : k \in (Len(deliveries) + 1)..Len(deliveries')}

\* C11: when the write handler of an accepted write to column c hands the cell
\* to the dispatcher, one cell.written call is started for each plugin that is
\* active and subscribed to c at that moment and for no other plugin, and each
\* call carries the cell's added_id, row_key (as a string), column_name,
\* ref_key, body and created_at and the shard id; no other step starts a call
\* of the dispatcher.
C11_FanOut ==
    [][ /\ \A i \in WriteIds :
            (reqs[i].pc = "indexed" /\ reqs'[i].pc = "done") =>
                LET c == reqs[i].cell[1]
                    subscribed == {id \in DOMAIN plugins :
                                      /\ plugins[id].Status = "active"
                                      /\ c.column_name \in plugins[id].SubscribedColumns}
                IN  /\ Len(deliveries') - Len(deliveries) = Cardinality(subscribed)
                    /\ Cardinality(Launched) = Cardinality(subscribed)
                    /\ \A id \in subscribed : \E d \in Launched :
                            d.plugin = plugins[id].Name /\ d.endpoint = plugins[id].Endpoint
                    /\ \A d \in Launched :
                            /\ \E id \in subscribed : d.plugin = plugins[id].Name
                            /\ d.req = i
                            /\ d.method = "cell.written"
                            /\ d.posts = 0
                            /\ d.params.added_id = c.added_id
                            /\ IsStringOf(d.params.row_key, c.row_key)
                            /\ d.params.column_name = c.column_name
                            /\ d.params.ref_key = c.ref_key
                            /\ d.params.body = c.body
                            /\ d.params.created_at = c.created_at
                            /\ d.params.shard_id = reqs[i].shard
        /\ (\A i \in WriteIds : ~(reqs[i].pc = "indexed" /\ reqs'[i].pc = "done"))
                => Len(deliveries') = Len(deliveries)
      ]_vars

\* an accepted write whose cell went to both subscribed plugins, one call each
C11_Witness ==
    /\ reqs[1].status = 201
    /\ Len(deliveries) = 2
    /\ \E k1, k2 \in DOMAIN deliveries :
            /\ deliveries[k1].req = 1 /\ deliveries[k1].plugin = "audit"
            /\ deliveries[k2].req = 1 /\ deliveries[k2].plugin = "billing"
            /\ deliveries[k1].params = deliveries[k2].params
            /\ deliveries[k1].params.column_name = "avatar"

\* ------------------------------------------------------------------------
\* Properties of the RPC client
\* ------------------------------------------------------------------------

\* C12: a call of the RPC client makes at most maxRetries + 1 POSTs, whatever
\* the endpoint does, and once it has made that many and the last one has
\* been answered the call is over.
C12_BoundedAttempts ==
    \A k \in DOMAIN deliveries :
        /\ deliveries[k].posts <= maxRetries + 1
        /\ (deliveries[k].posts = maxRetries + 1 /\ deliveries[k].pc # "trying")
                => deliveries[k].pc = "done"

\* a call that used every attempt it had against an endpoint that kept failing
C12_Witness ==
    \E k \in DOMAIN deliveries :
        /\ maxRetries = RetryBound
        /\ deliveries[k].posts = maxRetries + 1
        /\ deliveries[k].pc = "done"
        /\ deliveries[k].result = "failed"

\* C13: a call that ended after a 5xx reply has made all its maxRetries + 1
\* POSTs, has failed, and its failure is logged (with maxRetries = 0: one POST);
\* a call whose k-th POST was answered by a well-formed 200 after k - 1 failed
\* attempts has succeeded with exactly k POSTs and logs nothing.
C13_RetryThenSuccess ==
    \A k \in DOMAIN deliveries :
        LET d == deliveries[k]
        IN  /\ (d.pc = "done" /\ d.last.status >= 500) =>
                    /\ d.result = "failed"
                    /\ d.posts = maxRetries + 1
                    /\ d.logged = "trigger rpc failed"
            /\ (d.pc = "done" /\ d.last = [status |-> 200, body |-> "result"]) =>
                    /\ d.result = "ok"
                    /\ d.posts = d.attempt + 1
                    /\ d.logged = "none"

\* 500, 500, 200 under maxRetries = 2: three POSTs and a success
C13_Witness ==
    \E k \in DOMAIN deliveries :
        /\ maxRetries = 2
        /\ deliveries[k].only5xx
        /\ deliveries[k].posts = 3
        /\ deliveries[k].last = [status |-> 200, body |-> "result"]
        /\ deliveries[k].result = "ok"

\* C14: a 4xx reply is final: a call whose last reply was a 4xx makes no
\* further POST.
C14_ClientErrorIsFinal ==
    \A k \in DOMAIN deliveries :
        (deliveries[k].last.status >= 400 /\ deliveries[k].last.status < 500)
            => deliveries[k].pc \notin {"backoff", "pending", "trying"}

\* C15: a call whose POST was answered by HTTP 200 with a well-formed JSON-RPC
\* reply that carries an error object is over: the reply is what the call
\* returns, and no POST follows it.
C15_ErrorObjectIsFinal ==
    \A k \in DOMAIN deliveries :
        deliveries[k].last = [status |-> 200, body |-> "error"] =>
            /\ deliveries[k].pc = "done"
            /\ deliveries[k].result = "rpc_error"
            /\ deliveries[k].posts = deliveries[k].attempt + 1

\* a first POST answered by an error object, with retries left unused
C15_Witness ==
    \E k \in DOMAIN deliveries :
        /\ maxRetries >= 1
        /\ deliveries[k].last = [status |-> 200, body |-> "error"]
        /\ deliveries[k].posts = 1
        /\ deliveries[k].result = "rpc_error"

DeliveryStep(k) ==
    \/ CallSend(k)
    \/ \E reply \in Replies : CallReceive(k, reply)
    \/ CallBackoff(k, TRUE)

\* C17: the dispatcher does not block the write path.  A request whose cell
\* was handed to NotifyCell has its 201 response, whatever state the calls it
\* started are in, and a call that is not over can take its next step
\* whatever the other calls do.
C17_NeverBlocks ==
    /\ \A i \in WriteIds :
            (reqs[i].cell # <<>>
                /\ [shard_id |-> reqs[i].shard, cell |-> reqs[i].cell[1]] \in notified)
                    => (reqs[i].pc = "done" /\ reqs[i].status = 201)
    /\ \A k \in DOMAIN deliveries :
            deliveries[k].pc # "done" => ENABLED DeliveryStep(k)

\* the write is answered while one plugin has not answered its first POST and
\* the call to the other plugin is over
C17_Witness ==
    \E k1, k2 \in DOMAIN deliveries :
        /\ deliveries[k1].req = 1
        /\ deliveries[k2].req = 1
        /\ reqs[1].status = 201
        /\ deliveries[k1].pc = "trying"
        /\ deliveries[k1].posts = 1
        /\ deliveries[k2].pc = "done"

\* C18: the result of a write does not depend on the deliveries it started.
\* The write behind a call has its 201 response and its cell stored whatever
\* happened to the call; a call that ended with its retries exhausted or with
\* a JSON-RPC error is logged and nothing else; and no step of a call
\* changes a request or a table.
C18_WriteIndependentOfDelivery ==
    /\ [](\A k \in DOMAIN deliveries :
            LET d == deliveries[k]
            IN  d.req \in WriteIds =>
                    /\ reqs[d.req].status = 201
                    /\ reqs[d.req].err = "none"
                    /\ \E n \in 1..Len(cells[reqs[d.req].shard]) :
                            cells[reqs[d.req].shard][n] = reqs[d.req].cell[1]
                    /\ (d.result \in {"failed", "rpc_error"}) => d.logged # "none")
    /\ [][(Len(deliveries') = Len(deliveries) /\ deliveries' # deliveries)
            => (reqs' = reqs /\ cells' = cells /\ notified' = notified)]_vars

\* the calls of one accepted write: one gave up after its last attempt, the
\* other was answered by a JSON-RPC error; both are logged and the write has
\* its 201
C18_Witness ==
    \E k1, k2 \in DOMAIN deliveries :
        /\ deliveries[k1].req = 1
        /\ deliveries[k2].req = 1
        /\ deliveries[k1].result = "failed"
        /\ deliveries[k1].logged = "trigger rpc failed"
        /\ deliveries[k2].result = "rpc_error"
        /\ deliveries[k2].logged = "trigger rpc returned error"
        /\ reqs[1].status = 201

\* C19 as claimed: every plugin that was active and subscribed at dispatch
\* time receives the notification one or more times: a call of the dispatcher
\* that is over has reached its endpoint.
C19_AtLeastOnce ==
    \A k \in DOMAIN deliveries :
        (deliveries[k].req \in WriteIds /\ deliveries[k].pc = "done")
            => deliveries[k].reached

\* C19: delivery is best effort with bounded retry.  A call of the dispatcher
\* that is over has sent between one and maxRetries + 1 POSTs; its endpoint
\* received at least one of them unless every one of the maxRetries + 1
\* attempts failed before reaching it, and then the failure is logged and the
\* notification is lost.
C19_BestEffort ==
    \A k \in DOMAIN deliveries :
        LET d == deliveries[k]
        IN  (d.req \in WriteIds /\ d.pc = "done") =>
                /\ d.posts >= 1
                /\ d.posts <= maxRetries + 1
                /\ ~d.reached =>
                        /\ d.result = "failed"
                        /\ d.posts = maxRetries + 1
                        /\ d.logged = "trigger rpc failed"

\* of the two calls of one write, one never reached its endpoint in two or
\* more attempts and gave up, the other reached its endpoint twice
C19_Witness ==
    \E k1, k2 \in DOMAIN deliveries :
        /\ deliveries[k1].req = 1
        /\ deliveries[k2].req = 1
        /\ maxRetries >= 1
        /\ deliveries[k1].pc = "done"
        /\ ~deliveries[k1].reached
        /\ deliveries[k1].posts = maxRetries + 1
        /\ deliveries[k2].result = "ok"
        /\ deliveries[k2].only5xx
        /\ deliveries[k2].posts = 2

\* ------------------------------------------------------------------------
\* Properties of the plugin registry
\* ------------------------------------------------------------------------

\* C20: Register and Delete go to the store first, and a failure of the store
\* leaves the in-memory map as it was: the map always holds what the table
\* holds, a plugin whose Register failed to persist is absent from Get, List
\* and ForColumn, and a plugin whose Delete failed to persist is still there.
C20_StoreBeforeMemory ==
    /\ [](plugins = pluginStore)
    /\ [](lastRegistry.err = "persist plugin" =>
            /\ Get(lastRegistry.id).err = "not found"
            /\ \A p \in List : p.ID # lastRegistry.id /\ p.Name # lastRegistry.name
            /\ \A columnName \in ColumnNames : \A p \in PluginsForColumn(columnName) :
                    p.Name # lastRegistry.name)
    /\ [](lastRegistry.err = "persist delete" =>
            /\ Get(lastRegistry.id).err = "none"
            /\ \E p \in List : p.ID = lastRegistry.id /\ p.Name = lastRegistry.name)
    /\ [][lastRegistry'.err \in {"persist plugin", "persist delete"}
            => plugins' = plugins]_vars

\* a Register that the store refused while another plugin was registered
C20_Witness ==
    /\ lastRegistry.op = "Register"
    /\ lastRegistry.err = "persist plugin"
    /\ lastRegistry.name = "billing"
    /\ \E p \in List : p.Name = "audit"

\* C21: Register refuses, with "already registered", a plugin whose name is
\* the name of a registered plugin, the comparison being case-sensitive, and
\* leaves the map and the table as they were; whatever the order in which the
\* Register calls take the lock, no two registered plugins share a name.
C21_NameConflict ==
    /\ [](\A a, b \in DOMAIN plugins : plugins[a].Name = plugins[b].Name => a = b)
    /\ [][(/\ lastRegistry' # lastRegistry
           /\ lastRegistry'.op = "Register"
           /\ \E id \in DOMAIN plugins : plugins[id].Name = lastRegistry'.name)
            => /\ lastRegistry'.err = "already registered"
               /\ plugins' = plugins
               /\ pluginStore' = pluginStore]_vars

\* "billing" and "Billing" are both registered, and a second "billing" was refused
C21_Witness ==
    /\ lastRegistry.op = "Register"
    /\ lastRegistry.err = "already registered"
    /\ lastRegistry.name = "billing"
    /\ {p.Name : p \in List} = {"billing", "Billing"}

\* ------------------------------------------------------------------------
\* Restart of the process: the registry is rebuilt from the plugins table
\* ------------------------------------------------------------------------

\* scanPlugin: a row of the plugins table as a Plugin, the status text as a
\* PluginStatus
scanPlugin(row) ==
    [ID |-> row.ID, Name |-> row.Name, Endpoint |-> row.Endpoint,
     SubscribedColumns |-> row.SubscribedColumns, Status |-> row.Status]

\* PostgresPluginStore.ListPlugins: SELECT ... FROM plugins ORDER BY created_at
\* ASC; the ids of the model are drawn in the order of created_at
ListPlugins(table, dbOK) ==
    IF ~dbOK
    THEN [err |-> "list plugins", plugins |-> <<>>]
    ELSE [err |-> "none",
          plugins |-> [k \in 1..Cardinality(DOMAIN table) |->
                        scanPlugin(table[CHOOSE id \in DOMAIN table :
                            Cardinality({j \in DOMAIN table : j < id}) = k - 1])]]

\* a changed start-up: the rows listed are not put into the map
LoadAll_Nothing(map, listed) ==
    [err |-> IF listed.err = "none" THEN "none" ELSE "load plugins", map |-> map]

\* PluginRegistry.LoadAll: r.plugins[p.ID] = p for every plugin listed
LoadAll(map, listed) ==
    IF listed.err # "none"
    THEN [err |-> "load plugins", map |-> map]
    ELSE [err |-> "none",
          map |-> [id \in DOMAIN map \cup {listed.plugins[k].ID : k \in DOMAIN listed.plugins} |->
                    IF \E k \in DOMAIN listed.plugins : listed.plugins[k].ID = id
                    THEN listed.plugins[CHOOSE k \in DOMAIN listed.plugins :
                                            listed.plugins[k].ID = id]
                    ELSE map[id]]]

\* the process ends, its goroutines with it and its requests in flight never
\* answered, and main starts again: NewPluginRegistry(pluginStore), then
\* LoadAll; main exits when LoadAll fails
Restart(dbOK) ==
    LET loaded == LoadAll(<<>>, ListPlugins(pluginStore, dbOK))
    IN  /\ plugins' = loaded.map
        /\ lastRegistry' = [op |-> "LoadAll", id |-> 0, name |-> "", err |-> loaded.err]
        /\ reqs' = [i \in WriteIds |->
                        IF reqs[i].pc \in {"idle", "done"}
                        THEN reqs[i]
                        ELSE [reqs[i] EXCEPT !.pc = "done", !.status = 0,
                                             !.err = "connection closed"]]
        /\ idxCalls' = [i \in WriteIds |-> IdleCall]
        /\ deliveries' = <<>>
        /\ UNCHANGED <<cells, nextId, notified, idxStores, idxNextId, pluginStore,
                       nextPluginId, maxRetries, scan, bootVars>>

\* the process serves requests once main is past LoadAll
Serving == lastRegistry.err # "load plugins"

NextRestart ==
    \/ \E dbOK \in BOOLEAN : Restart(dbOK)
    \/ /\ Serving
       /\ \/ \E input \in NotifyPlugins, dbOK \in BOOLEAN : Register(input, dbOK)
          \/ \E id \in PluginIds, dbOK \in BOOLEAN : Delete(id, dbOK)
          \/ WriteCellRoute(1, UUID(1), "avatar", 1, BodyX)
          \/ WriteCellStore(1, TRUE)
          \/ WriteCellIndex(1, <<>>)
          \/ WriteCellIndexed(1)
          \/ WriteCellNotify(1)

SpecRestart == Init /\ [][NextRestart]_vars

\* C22: the plugins table holds the plugins whose Register succeeded and whose
\* Delete did not, a start of the process leaves the table as it is, and the
\* process that is past LoadAll has in its registry the plugins of the table
\* and no other: List returns them, and a write to a column starts a call to
\* each active plugin of the table subscribed to it.
C22_SurvivesRestart ==
    /\ [](Serving => List = {pluginStore[id] : id \in DOMAIN pluginStore})
    /\ [][lastRegistry'.op = "LoadAll" => pluginStore' = pluginStore]_vars
    /\ [][pluginStore' # pluginStore =>
            /\ lastRegistry'.err = "none"
            /\ \/ /\ lastRegistry'.op = "Register"
                  /\ DOMAIN pluginStore' = DOMAIN pluginStore \cup {lastRegistry'.id}
                  /\ pluginStore'[lastRegistry'.id].Name = lastRegistry'.name
               \/ /\ lastRegistry'.op = "Delete"
                  /\ DOMAIN pluginStore' = DOMAIN pluginStore \ {lastRegistry'.id}
            /\ \A id \in DOMAIN pluginStore \cap DOMAIN pluginStore' :
                    pluginStore'[id] = pluginStore[id]]_vars
    /\ [][Len(deliveries') > Len(deliveries) =>
            {deliveries'[k].plugin : k \in DOMAIN deliveries' \ DOMAIN deliveries}
                = {pluginStore[id].Name : id \in
                    {j \in DOMAIN pluginStore :
                        /\ pluginStore[j].Status = PluginStatusActive
                        /\ reqs[1].cell[1].column_name
                                \in pluginStore[j].SubscribedColumns}}]_vars

\* after a start of the process, a write to "avatar" started a call to "audit",
\* registered before the start, and none to a plugin deleted before it
C22_Witness ==
    /\ lastRegistry.op = "LoadAll"
    /\ lastRegistry.err = "none"
    /\ nextPluginId = 3
    /\ {p.Name : p \in List} = {"audit"}
    /\ Len(deliveries) = 1
    /\ deliveries[1].plugin = "audit"

\* ------------------------------------------------------------------------
\* The partition scanner: storage.Cursor, PostgresStore.PartitionRead and the
\* handler of GET /v1/cells/partitionRead
\* ------------------------------------------------------------------------

PartitionReadTypeCreatedAt == 1

PartitionReadTypeAddedID == 2

DefaultLimit == 1000

\* the greatest limit the handler passes to the store
MaxLimit == 1000

\* the texts of the instants of the model's clock, as time.RFC3339Nano prints
\* them; time.Parse reads these and no other text
TimeStrings ==
    <<"2026-01-01T00:00:01Z", "2026-01-01T00:00:02Z", "2026-01-01T00:00:03Z",
      "2026-01-01T00:00:04Z", "2026-01-01T00:00:05Z", "2026-01-01T00:00:06Z">>

\* a cursor string: kind "empty" is "", kind "json" is the URL-safe base64 of
\* a JSON object with the fields of Cursor (a zero field is left out by
\* omitempty and read back as zero), kind "text" is the base64 of another
\* text, kind "raw" is not base64.
\* Cursor.Encode: json.Marshal, then base64.URLEncoding
Encode(c) == [kind |-> "json", added_id |-> c.AddedID, created_at |-> c.CreatedAt]

\* DecodeCursor: base64.URLEncoding.DecodeString, then json.Unmarshal
DecodeCursor(s) ==
    IF s.kind \notin {"json", "text"}
    THEN [err |-> "decode cursor", cursor |-> [AddedID |-> 0, CreatedAt |-> ""]]
    ELSE IF s.kind = "text"
    THEN [err |-> "unmarshal cursor", cursor |-> [AddedID |-> 0, CreatedAt |-> ""]]
    ELSE [err |-> "none", cursor |-> [AddedID |-> s.added_id, CreatedAt |-> s.created_at]]

\* a changed default: a limit that is not positive is read as 1
EffectiveLimit_One(limit) == IF limit <= 0 THEN 1 ELSE limit

\* PartitionRead: if limit <= 0 { limit = 1000 }
EffectiveLimit(limit) == IF limit <= 0 THEN DefaultLimit ELSE limit

\* a changed test: a page that has a row announces another page
FullPage_AnyRow(n, limit) == n > 0

\* PartitionRead: if len(cells) == limit
FullPage(n, limit) == n = limit

\* PostgresStore.PartitionRead on the rows of one shard table
StorePartitionRead(table, readType, cursor, limit, dbOK) ==
    LET lim == EffectiveLimit(limit)
        none == [kind |-> "empty", added_id |-> 0, created_at |-> ""]
        Failed(e) == [err |-> e, cells |-> <<>>, has_more |-> FALSE, next_cursor |-> none]
        dec == IF cursor.kind = "empty"
               THEN [err |-> "none", cursor |-> [AddedID |-> 0, CreatedAt |-> ""]]
               ELSE DecodeCursor(cursor)
        byCreatedAt == readType = PartitionReadTypeCreatedAt
        parsed == dec.cursor.CreatedAt = ""
                    \/ \E t \in DOMAIN TimeStrings : TimeStrings[t] = dec.cursor.CreatedAt
        createdAfter == IF dec.cursor.CreatedAt = "" \/ ~parsed THEN 0
                        ELSE CHOOSE t \in DOMAIN TimeStrings :
                                TimeStrings[t] = dec.cursor.CreatedAt
        After(row) == IF byCreatedAt THEN row.created_at > createdAfter
                      ELSE row.added_id > dec.cursor.AddedID
        rows == Limit(OrderBy(SelectSeq(table, After),
                              IF byCreatedAt THEN "created_at ASC" ELSE "added_id ASC"),
                      lim)
        last == rows[Len(rows)]
    IN  IF dec.err # "none" THEN Failed("invalid cursor")
        ELSE IF byCreatedAt /\ ~parsed THEN Failed("invalid created_at cursor")
        ELSE IF readType \notin {PartitionReadTypeCreatedAt, PartitionReadTypeAddedID}
        THEN Failed("invalid read type")
        ELSE IF ~dbOK THEN Failed("partition read")
        ELSE IF FullPage(Len(rows), lim)
        THEN [err |-> "none", cells |-> rows, has_more |-> TRUE,
              next_cursor |-> IF byCreatedAt
                              THEN Encode([AddedID |-> 0,
                                           CreatedAt |-> TimeStrings[last.created_at]])
                              ELSE Encode([AddedID |-> last.added_id, CreatedAt |-> ""])]
        ELSE [err |-> "none", cells |-> rows, has_more |-> FALSE, next_cursor |-> none]

\* the limit the handler passes on: capped at the server's maximum
CapLimit(limit) == IF limit > MaxLimit THEN MaxLimit ELSE limit

\* the answer to an error of store.PartitionRead: a cursor that cannot be
\* decoded is the client's fault, another error the server's
PartitionReadFault(err) ==
    IF err \in {"invalid cursor", "invalid created_at cursor"} THEN 400 ELSE 500

\* a changed handler: the read type is left to the store to refuse
PartitionReadResponse_StoreDecides(partitionNumber, readType, cursor, limit, dbOK) ==
    LET none == [kind |-> "empty", added_id |-> 0, created_at |-> ""]
        Fault(code) == [status |-> code, limit |-> 0, cells |-> <<>>,
                        has_more |-> FALSE, next_cursor |-> none]
        page == StorePartitionRead(cells[partitionNumber], readType, cursor,
                                   CapLimit(limit), dbOK)
    IN  IF partitionNumber < 0 \/ partitionNumber >= NumShards THEN Fault(400)
        ELSE IF ~StoreFor(partitionNumber) THEN Fault(500)
        ELSE IF page.err # "none" THEN Fault(PartitionReadFault(page.err))
        ELSE [status |-> 200, limit |-> EffectiveLimit(CapLimit(limit)),
              cells |-> page.cells, has_more |-> page.has_more,
              next_cursor |-> page.next_cursor]

\* what CellHandler.PartitionRead answers in the current state; limit is the
\* limit of the query the store ran
PartitionReadResponse(partitionNumber, readType, cursor, limit, dbOK) ==
    LET none == [kind |-> "empty", added_id |-> 0, created_at |-> ""]
        Fault(code) == [status |-> code, limit |-> 0, cells |-> <<>>,
                        has_more |-> FALSE, next_cursor |-> none]
        page == StorePartitionRead(cells[partitionNumber], readType, cursor,
                                   CapLimit(limit), dbOK)
    IN  IF readType \notin {PartitionReadTypeCreatedAt, PartitionReadTypeAddedID}
        THEN Fault(400)
        ELSE IF partitionNumber < 0 \/ partitionNumber >= NumShards THEN Fault(400)
        ELSE IF ~StoreFor(partitionNumber) THEN Fault(500)
        ELSE IF page.err # "none" THEN Fault(PartitionReadFault(page.err))
        ELSE [status |-> 200, limit |-> EffectiveLimit(CapLimit(limit)),
              cells |-> page.cells, has_more |-> page.has_more,
              next_cursor |-> page.next_cursor]

\* CellHandler.PartitionRead: a read changes nothing
PartitionRead(partitionNumber, readType, cursor, limit, dbOK) ==
    /\ PartitionReadResponse(partitionNumber, readType, cursor, limit, dbOK).status
            \in {200, 400, 500}
    /\ UNCHANGED vars

\* time passes
ClockTick ==
    /\ now < MaxClock
    /\ now' = now + 1
    /\ UNCHANGED <<baseVars, watchVars, lostReplies, breaker, execs>>

\* a client that pages through a partition in one mode: its first request
\* carries the starting cursor (none when it starts at 0), each next one the
\* next_cursor of the page before, until a page answers has_more = false
ScanPageBy(readType, partitionNumber, start, limit) ==
    /\ scan.pc \in {"idle", "paging"}
    /\ scan.pc = "paging" =>
            /\ readType = scan.readType
            /\ partitionNumber = scan.partition
            /\ start = scan.start
            /\ limit = scan.limit
    /\ LET cursor == IF scan.pc = "paging" THEN scan.cursor
                     ELSE IF start = 0
                          THEN [kind |-> "empty", added_id |-> 0, created_at |-> ""]
                          ELSE IF readType = PartitionReadTypeCreatedAt
                               THEN Encode([AddedID |-> 0, CreatedAt |-> TimeStrings[start]])
                               ELSE Encode([AddedID |-> start, CreatedAt |-> ""])
           page == PartitionReadResponse(partitionNumber, readType, cursor, limit, TRUE)
       IN  scan' = [pc |-> IF page.status # 200 THEN "failed"
                           ELSE IF page.has_more THEN "paging" ELSE "done",
                    readType |-> readType,
                    partition |-> partitionNumber, limit |-> limit, start |-> start,
                    cursor |-> page.next_cursor,
                    cells |-> scan.cells \o page.cells,
                    pages |-> scan.pages + 1]
    /\ UNCHANGED <<cells, nextId, reqs, notified, idxVars, trigVars, bootVars>>

\* the client paging by added_id
ScanPage(partitionNumber, start, limit) ==
    ScanPageBy(PartitionReadTypeAddedID, partitionNumber, start, limit)

\* PostgresStore.WriteCell as the database runs it, first part: the INSERT
\* takes the next value of the sequence and meets the rows already committed;
\* the row is not yet visible to other statements
WriteCellInsert(i) ==
    /\ reqs[i].pc = "routed"
    /\ LET s == reqs[i].shard
       IN  /\ nextId' = [nextId EXCEPT ![s] = @ + 1]
           /\ reqs' = [reqs EXCEPT ![i] =
                IF UniqueRefViolated(cells[s], reqs[i])
                THEN [@ EXCEPT !.pc = "done", !.err = "unique_violation", !.status = 500]
                ELSE [@ EXCEPT !.pc = "inserting",
                               !.cell = <<NewCell(nextId[s], reqs[i])>>]]
    /\ UNCHANGED <<cells, notified, idxVars, trigVars, scan, bootVars>>

\* PostgresStore.WriteCell, second part: the statement's transaction commits
\* and the row is visible; a row of the same reference committed meanwhile
\* fails the statement
WriteCellCommit(i) ==
    /\ reqs[i].pc = "inserting"
    /\ LET s == reqs[i].shard
       IN  IF UniqueRefViolated(cells[s], reqs[i])
           THEN /\ reqs' = [reqs EXCEPT ![i] =
                        [@ EXCEPT !.pc = "done", !.err = "unique_violation",
                                  !.status = 500, !.cell = <<>>]]
                /\ UNCHANGED cells
           ELSE /\ cells' = [cells EXCEPT ![s] = Append(@, reqs[i].cell[1])]
                /\ reqs' = [reqs EXCEPT ![i] = [@ EXCEPT !.pc = "stored"]]
    /\ UNCHANGED <<nextId, notified, idxVars, trigVars, scan, bootVars>>

\* the cursors a client may send: none, those Encode makes, and texts it does not
CursorInputs ==
    {[kind |-> "empty", added_id |-> 0, created_at |-> ""],
     [kind |-> "text", added_id |-> 0, created_at |-> ""],
     [kind |-> "raw", added_id |-> 0, created_at |-> ""],
     Encode([AddedID |-> 0, CreatedAt |-> "yesterday"]),
     Encode([AddedID |-> 0, CreatedAt |-> TimeStrings[1]])}
        \cup {Encode([AddedID |-> n, CreatedAt |-> ""]) : n \in 0..MaxWrites}

\* the limits a client may send
LimitInputs == (-1..(MaxWrites + 1)) \cup {MaxLimit, MaxLimit + 1, 5 * MaxLimit}

\* the writes of the partition path: cells of one row key, so of one shard
PartitionPathWrites ==
    {<<UUID(1), "avatar", 1>>, <<UUID(1), "avatar", 2>>, <<UUID(1), "profile", 1>>}

\* two requests are followed, in flight together
NextPartition ==
    \/ \E i \in {1, 2}, w \in PartitionPathWrites :
            WriteCellRoute(i, w[1], w[2], w[3], BodyX)
    \/ \E i \in {1, 2} : WriteCellInsert(i)
    \/ \E i \in {1, 2} : WriteCellCommit(i)
    \/ \E start \in 0..1, limit \in 1..MaxWrites :
            ScanPage(RowKeyShard[UUID(1)], start, limit)
    \/ \E cursor \in CursorInputs :
            PartitionRead(RowKeyShard[UUID(1)], PartitionReadTypeCreatedAt, cursor, 0, TRUE)
    \/ ClockTick

SpecPartition == Init /\ [][NextPartition]_vars

\* the reads of one partition beside its writes: two write requests in flight
\* together, the clock, and PartitionRead in both modes
NextPartitionRead ==
    \/ \E i \in {1, 2}, w \in PartitionPathWrites :
            WriteCellRoute(i, w[1], w[2], w[3], BodyX)
    \/ \E i \in {1, 2} : WriteCellInsert(i)
    \/ \E i \in {1, 2} : WriteCellCommit(i)
    \/ \E readType \in {PartitionReadTypeCreatedAt, PartitionReadTypeAddedID},
          cursor \in CursorInputs, limit \in 0..1 :
            PartitionRead(RowKeyShard[UUID(1)], readType, cursor, limit, TRUE)
    \/ ClockTick

SpecPartitionRead == Init /\ [][NextPartitionRead]_vars

\* C23: paging through one shard by added_id with limit L, each request
\* carrying the next cursor of the page before until has_more is false,
\* returns exactly the rows of the table whose added_id is greater than the
\* starting cursor: none missing, none twice, in strictly ascending added_id.
C23_ExactPaging ==
    [][(scan.pc # "done" /\ scan'.pc = "done") =>
        /\ \A k \in 1..(Len(scan'.cells) - 1) :
                scan'.cells[k].added_id < scan'.cells[k + 1].added_id
        /\ {scan'.cells[k] : k \in DOMAIN scan'.cells}
            = {cells'[scan'.partition][k] : k \in
                {j \in DOMAIN cells'[scan'.partition] :
                    cells'[scan'.partition][j].added_id > scan'.start}}]_vars

\* C25: in one shard table added_id follows the order of commit: a row
\* committed before another has the smaller added_id, also when the two
\* statements were in flight together.
C25_CommitOrder ==
    \A s \in ShardIDs : \A a, b \in DOMAIN cells[s] :
        a < b => cells[s][a].added_id < cells[s][b].added_id

ShardFor(fn, key, numShards, intSize) ==
    /\ hashed' = (IF hashed = <<>> THEN <<>> ELSE <<hashed[Len(hashed)]>>) \o
                    <<[fn |-> fn, key |-> key, numShards |-> numShards,
                       intSize |-> intSize,
                       shard |-> IntModShards(Sum32a(key), numShards, intSize)]>>
    /\ UNCHANGED <<cells, nextId, reqs, notified, idxVars, trigVars, scan, shardCfg,
                   health, lateVars>>

NextShard ==
    \/ \E rowKey \in RowKeys, numShards \in 1..NumShards, intSize \in {32, 64} :
            ShardFor("ForRowKey", rowKey, numShards, intSize)
    \/ \E key \in KeyValues, numShards \in 1..NumShards, intSize \in {32, 64} :
            ShardFor("ForKey", key, numShards, intSize)

SpecShard == Init /\ [][NextShard]_vars

\* C28: for every UUID, every string and every number of shards N >= 1,
\* ForRowKey and ForKey return a shard id in [0, N), and two calls on equal
\* inputs return equal shard ids, whichever process and whichever host
\* architecture made them.
C28_ShardInRange ==
    /\ \A k \in DOMAIN hashed : hashed[k].shard \in 0..(hashed[k].numShards - 1)
    /\ \A j, k \in DOMAIN hashed :
            (/\ hashed[j].fn = hashed[k].fn
             /\ hashed[j].key = hashed[k].key
             /\ hashed[j].numShards = hashed[k].numShards)
                => hashed[j].shard = hashed[k].shard

\* ------------------------------------------------------------------------
\* Start-up: config.LoadShardConfig, and the readiness probe over the
\* backends it accepted
\* ------------------------------------------------------------------------

\* a changed validation: a shard already covered is not looked for
Overlaps_Never(covered, b) == FALSE

\* LoadShardConfig, the loop over the shards of one backend: if covered[s]
Overlaps(covered, b) == \E s \in b.shard_start..b.shard_end : s \in covered

\* LoadShardConfig, the loop over cfg.Backends from the i-th on, with the
\* shards covered so far, and the loop over the shards after it
RECURSIVE ValidateBackends(_, _, _, _)
ValidateBackends(backends, i, covered, numShards) ==
    IF i > Len(backends)
    THEN IF \E s \in 0..(numShards - 1) : s \notin covered
         THEN "not covered by any backend" ELSE "none"
    ELSE LET b == backends[i]
         IN  IF b.database_url = "" THEN "empty database_url"
             ELSE IF b.shard_start < 0 \/ b.shard_end < 0 THEN "negative shard range"
             ELSE IF b.shard_start > b.shard_end THEN "shard_start > shard_end"
             ELSE IF b.shard_end >= numShards THEN "shard_end >= num_shards"
             ELSE IF Overlaps(covered, b) THEN "covered by multiple backends"
             ELSE ValidateBackends(backends, i + 1,
                        covered \cup (b.shard_start..b.shard_end), numShards)

\* config.LoadShardConfig: the file is read, parsed and validated
LoadShardConfig(file, numShards) ==
    IF file.kind = "missing" THEN "read shard config"
    ELSE IF file.kind = "text" THEN "parse shard config"
    ELSE IF Len(file.backends) = 0 THEN "no backends defined"
    ELSE ValidateBackends(file.backends, 1, {}, numShards)

\* main: shardCfg, err := config.LoadShardConfig(cfg.ShardConfigPath,
\* cfg.NumShards); the process exits on an error
MainLoadShardConfig(file, numShards) ==
    /\ shardCfg.pc = "none"
    /\ LET err == LoadShardConfig(file, numShards)
       IN  shardCfg' = [pc |-> IF err = "none" THEN "loaded" ELSE "exited",
                        backends |-> file.backends, numShards |-> numShards,
                        err |-> err]
    /\ UNCHANGED <<cells, nextId, reqs, notified, idxVars, trigVars, scan, hashed,
                   health, lateVars>>

\* HealthHandler.Readyz, entry: with no backend the answer is 200 at once;
\* otherwise one goroutine for each backend of h.backends (main: one pool for
\* each backend of the shard config, by name) pings it under a context of 3 s
Readyz ==
    /\ shardCfg.pc = "loaded"
    /\ health.pc = "idle"
    /\ LET names == {shardCfg.backends[i].name : i \in DOMAIN shardCfg.backends}
       IN  health' = IF names = {}
                     THEN [pc |-> "done", pings |-> <<>>, status |-> 200,
                           body |-> [status |-> "ok", backends |-> <<>>]]
                     ELSE [pc |-> "pinging", pings |-> [n \in names |-> "pending"],
                           status |-> 0, body |-> <<>>]
    /\ UNCHANGED <<cells, nextId, reqs, notified, idxVars, trigVars, scan, hashed,
                   shardCfg, lateVars>>

\* the goroutine of one backend: p.Ping(ctx) returns nil, an error of the
\* connection, or the error of the context when the 3 s are over, and the
\* result goes to the channel
Ping(name, err) ==
    /\ health.pc = "pinging"
    /\ name \in DOMAIN health.pings
    /\ health.pings[name] = "pending"
    /\ health' = [health EXCEPT !.pings[name] = err]
    /\ UNCHANGED <<cells, nextId, reqs, notified, idxVars, trigVars, scan, hashed,
                   shardCfg, lateVars>>

\* a changed answer: one backend that answers is enough
ReadyzRespond_AnyBackend ==
    /\ health.pc = "pinging"
    /\ \A n \in DOMAIN health.pings : health.pings[n] # "pending"
    /\ LET backends == [n \in DOMAIN health.pings |->
                            IF health.pings[n] = "none"
                            THEN [status |-> "ok", error |-> ""]
                            ELSE [status |-> "error", error |-> health.pings[n]]]
           healthy == \E n \in DOMAIN backends : backends[n].status = "ok"
       IN  health' = [health EXCEPT
                !.pc = "done",
                !.status = IF healthy THEN 200 ELSE 503,
                !.body = [status |-> IF healthy THEN "ok" ELSE "unavailable",
                          backends |-> backends]]
    /\ UNCHANGED <<cells, nextId, reqs, notified, idxVars, trigVars, scan, hashed,
                   shardCfg, lateVars>>

\* HealthHandler.Readyz after wg.Wait(): the results are collected, and the
\* answer is 200 when every backend is "ok", 503 otherwise
ReadyzRespond ==
    /\ health.pc = "pinging"
    /\ \A n \in DOMAIN health.pings : health.pings[n] # "pending"
    /\ LET backends == [n \in DOMAIN health.pings |->
                            IF health.pings[n] = "none"
                            THEN [status |-> "ok", error |-> ""]
                            ELSE [status |-> "error", error |-> health.pings[n]]]
           healthy == \A n \in DOMAIN backends : backends[n].status = "ok"
       IN  health' = [health EXCEPT
                !.pc = "done",
                !.status = IF healthy THEN 200 ELSE 503,
                !.body = [status |-> IF healthy THEN "ok" ELSE "unavailable",
                          backends |-> backends]]
    /\ UNCHANGED <<cells, nextId, reqs, notified, idxVars, trigVars, scan, hashed,
                   shardCfg, lateVars>>

\* the shard config files of the model: a file that is missing, one that is
\* not JSON, and every list of at most two backends "a" and "b"
NextBoot ==
    \/ \E numShards \in 1..NumShards :
        LET Backend(name) ==
                [name : {name}, database_url : {"", "postgres://" \o name \o "/db"},
                 shard_start : -1..numShards, shard_end : -1..numShards]
            lists == {<<>>} \cup {<<a>> : a \in Backend("a")}
                        \cup {<<a, b>> : a \in Backend("a"), b \in Backend("b")}
        IN  \E file \in {[kind |-> "missing", backends |-> <<>>],
                         [kind |-> "text", backends |-> <<>>]}
                            \cup {[kind |-> "json", backends |-> l] : l \in lists} :
                MainLoadShardConfig(file, numShards)
    \/ Readyz
    \/ \E name \in {"a", "b"},
          err \in {"none", "connection refused", "context deadline exceeded"} :
            Ping(name, err)
    \/ ReadyzRespond

SpecBoot == Init /\ [][NextBoot]_vars

\* C29: LoadShardConfig accepts a list of backends exactly when the list is
\* not empty, every database_url is not empty, every range has
\* 0 <= shard_start <= shard_end < N, no two ranges share a shard and the
\* ranges together are {0 .. N-1}; an overlap, a gap, a range below 0 or one
\* that reaches N is refused.
C29_ShardConfigValid ==
    (shardCfg.pc # "none" /\ shardCfg.err \notin {"read shard config", "parse shard config"})
        => LET bs == shardCfg.backends
               N == shardCfg.numShards
               Range(i) == bs[i].shard_start..bs[i].shard_end
           IN  (shardCfg.err = "none") <=>
                    /\ Len(bs) >= 1
                    /\ \A i \in DOMAIN bs :
                        /\ bs[i].database_url # ""
                        /\ 0 <= bs[i].shard_start
                        /\ bs[i].shard_start <= bs[i].shard_end
                        /\ bs[i].shard_end < N
                    /\ \A i, j \in DOMAIN bs : i # j => Range(i) \cap Range(j) = {}
                    /\ UNION {Range(i) : i \in DOMAIN bs} = 0..(N - 1)

\* two backends that share shard 1 of two shards were refused
C29_Witness ==
    /\ shardCfg.pc = "exited"
    /\ shardCfg.err = "covered by multiple backends"
    /\ shardCfg.numShards = 2
    /\ Len(shardCfg.backends) = 2
    /\ shardCfg.backends[1].shard_end = 1
    /\ shardCfg.backends[2].shard_start = 1

\* C30: the readiness probe pings every backend; it answers 200 only when
\* every ping succeeded, and when a ping failed, or did not return before the
\* 3 s were over, it answers 503 with a body that names each failing backend.
C30_ReadyOnlyIfAllPass ==
    health.pc = "done" =>
        LET names == {shardCfg.backends[i].name : i \in DOMAIN shardCfg.backends}
            failed == {n \in names : health.pings[n] # "none"}
        IN  /\ DOMAIN health.pings = names
            /\ DOMAIN health.body.backends = names
            /\ health.status = IF failed = {} THEN 200 ELSE 503
            /\ health.body.status = IF failed = {} THEN "ok" ELSE "unavailable"
            /\ \A n \in names :
                IF n \in failed
                THEN /\ health.body.backends[n].status = "error"
                     /\ health.body.backends[n].error = health.pings[n]
                ELSE health.body.backends[n].status = "ok"

\* backend "a" answered, the ping of "b" ended with the deadline: 503, and
\* the body has "a" as ok and "b" as the error
C30_Witness ==
    /\ health.pc = "done"
    /\ health.status = 503
    /\ DOMAIN health.pings = {"a", "b"}
    /\ health.pings["a"] = "none"
    /\ health.body.backends["a"].status = "ok"
    /\ health.body.backends["b"].error = "context deadline exceeded"

\* ------------------------------------------------------------------------
\* circuitbreaker.Breaker: calls of Execute by concurrent goroutines
\* ------------------------------------------------------------------------

\* a changed threshold: the breaker opens one failure late
Trips_Late(failures, maxFailures) == failures > maxFailures

\* Execute, after a failure: b.failures >= b.maxFailures
Trips(failures, maxFailures) == failures >= maxFailures

\* a changed test: an open breaker lets every call through
Elapsed_Always(since, resetTimeout) == TRUE

\* Execute, in state Open: time.Since(b.lastFailureTime) > b.resetTimeout
Elapsed(since, resetTimeout) == since > resetTimeout

\* Breaker.Execute up to the call of fn, under b.mu: an open breaker whose
\* timeout has passed becomes half-open, one whose timeout has not passed
\* returns ErrCircuitOpen, and every other state lets the call through
ExecuteEnter(g) ==
    /\ execs.calls[g].pc = "idle"
    /\ execs.started < MaxExecutes
    /\ IF breaker.state = Open /\ ~Elapsed(now - breaker.lastFailureTime, breaker.resetTimeout)
       THEN /\ execs' = [calls |-> [execs.calls EXCEPT ![g] =
                                        [pc |-> "idle", err |-> ErrCircuitOpen,
                                         ran |-> FALSE, admitted |-> Open]],
                         started |-> execs.started + 1]
            /\ UNCHANGED breaker
       ELSE /\ breaker' = [breaker EXCEPT !.state = IF breaker.state = Open THEN HalfOpen
                                                    ELSE breaker.state]
            /\ execs' = [calls |-> [execs.calls EXCEPT ![g] =
                                        [pc |-> "fn", err |-> "none", ran |-> TRUE,
                                         admitted |-> breaker'.state]],
                         started |-> execs.started + 1]
    /\ UNCHANGED <<baseVars, watchVars, lostReplies, now>>

\* a changed ending: a success leaves the state as it is
ExecuteReturn_KeepsState(g, err) ==
    /\ execs.calls[g].pc = "fn"
    /\ breaker' = IF err # "nil"
                  THEN [breaker EXCEPT !.failures = breaker.failures + 1,
                                       !.lastFailureTime = now,
                                       !.state = IF Trips(breaker.failures + 1,
                                                          breaker.maxFailures)
                                                 THEN Open ELSE breaker.state]
                  ELSE [breaker EXCEPT !.failures = 0]
    /\ execs' = [execs EXCEPT !.calls[g].pc = "idle", !.calls[g].err = err]
    /\ UNCHANGED <<baseVars, watchVars, lostReplies, now>>

\* Breaker.Execute from the return of fn, under b.mu: a failure is counted and
\* opens the breaker at maxFailures, a success clears the count and closes it
ExecuteReturn(g, err) ==
    /\ execs.calls[g].pc = "fn"
    /\ breaker' = IF err # "nil"
                  THEN [breaker EXCEPT !.failures = breaker.failures + 1,
                                       !.lastFailureTime = now,
                                       !.state = IF Trips(breaker.failures + 1,
                                                          breaker.maxFailures)
                                                 THEN Open ELSE breaker.state]
                  ELSE [breaker EXCEPT !.failures = 0, !.state = Closed]
    /\ execs' = [execs EXCEPT !.calls[g].pc = "idle", !.calls[g].err = err]
    /\ UNCHANGED <<baseVars, watchVars, lostReplies, now>>

\* a breaker of every threshold, with a timeout of one or two instants
InitBreaker ==
    /\ InitStores
    /\ maxRetries = TriggerRetryMax
    /\ breaker \in {New(maxFailures, resetTimeout) :
                        maxFailures \in 1..MaxFailuresBound, resetTimeout \in {0, 1}}

NextBreaker ==
    \/ \E g \in Goroutines : ExecuteEnter(g)
    \/ \E g \in Goroutines, err \in {"nil", "errTest"} : ExecuteReturn(g, err)
    \/ ClockTick

SpecBreaker == InitBreaker /\ [][NextBreaker]_vars

\* the calls of Execute made one after the other, as by a single goroutine
NextBreakerSeq ==
    \/ \E g \in Goroutines :
            /\ \A h \in Goroutines : execs.calls[h].pc = "idle"
            /\ ExecuteEnter(g)
    \/ \E g \in Goroutines, err \in {"nil", "errTest"} : ExecuteReturn(g, err)
    \/ ClockTick

SpecBreakerSeq == InitBreaker /\ [][NextBreakerSeq]_vars

\* a call of Execute entered (it was rejected or it went on to fn)
Entered == execs'.started = execs.started + 1

\* goroutine g's call of fn returned
Returned(g) == execs.calls[g].pc = "fn" /\ execs'.calls[g].pc = "idle"

\* C31: from Closed the breaker becomes Open exactly when the count of
\* consecutive failures reaches maxFailures: a failed call adds one to the
\* count and opens the breaker if and only if the count is then maxFailures
\* or more, else the breaker stays Closed; a successful call sets the count to
\* zero and leaves the breaker Closed; a Closed breaker has counted fewer
\* than maxFailures failures
C31_OpensAtMaxFailures ==
    [][ /\ breaker.state = Closed => breaker.failures < breaker.maxFailures
        /\ \A g \in Goroutines :
            (Returned(g) /\ breaker.state = Closed) =>
                IF execs'.calls[g].err = "nil"
                THEN breaker'.failures = 0 /\ breaker'.state = Closed
                ELSE /\ breaker'.failures = breaker.failures + 1
                     /\ breaker'.state =
                            IF breaker'.failures >= breaker.maxFailures
                            THEN Open ELSE Closed ]_vars

\* the breaker of threshold two is open after exactly two failed calls
C31_Witness ==
    /\ breaker.maxFailures = 2
    /\ breaker.state = Open
    /\ breaker.failures = 2
    /\ execs.started = 2
    /\ \A g \in Goroutines : execs.calls[g].pc = "idle"

\* C32: while the breaker is Open and no more than resetTimeout has passed
\* since the last failure, a call of Execute returns ErrCircuitOpen, does not
\* run fn and leaves the breaker as it is
C32_OpenRejects ==
    [][ (/\ Entered
         /\ breaker.state = Open
         /\ now - breaker.lastFailureTime <= breaker.resetTimeout) =>
            /\ breaker' = breaker
            /\ \A g \in Goroutines : execs'.calls[g].pc = execs.calls[g].pc
            /\ \E g \in Goroutines :
                /\ execs.calls[g].pc = "idle"
                /\ execs'.calls[g].err = ErrCircuitOpen
                /\ ~execs'.calls[g].ran ]_vars

\* a call was rejected by a breaker that is still open
C32_Witness ==
    /\ breaker.state = Open
    /\ now - breaker.lastFailureTime <= breaker.resetTimeout
    /\ \E g \in Goroutines :
        /\ execs.calls[g].pc = "idle"
        /\ execs.calls[g].err = ErrCircuitOpen
        /\ ~execs.calls[g].ran

C33_WitnessClosed ==
    /\ breaker.state = Closed
    /\ \E g \in Goroutines :
        /\ execs.calls[g].pc = "idle"
        /\ execs.calls[g].admitted = HalfOpen
        /\ execs.calls[g].err = "nil"

\* C35: while the breaker is HalfOpen only one request is let through: at
\* most one call that was let through by a HalfOpen breaker is running fn
C35_OneProbe ==
    Cardinality({g \in Goroutines : /\ execs.calls[g].pc = "fn"
                                    /\ execs.calls[g].admitted = HalfOpen}) <= 1

\* C36: an Open breaker leaves Open only by becoming HalfOpen, and its count
\* of failures is not reset while it is Open
C36_OpenLeavesByProbe ==
    [][ breaker.state = Open =>
            /\ breaker'.state \in {Open, HalfOpen}
            /\ breaker'.failures >= breaker.failures ]_vars

\* ------------------------------------------------------------------------
\* trigger.Watcher: one (shard, column) tailed by added_id under a checkpoint
\* ------------------------------------------------------------------------

\* the shard and the column the watcher of the model tails
WatchedShard == RowKeyShard[UUID(1)]
WatchedColumn == "avatar"

\* the handlers registered for the column, in the order of registration
HandlersFor == 1..MaxHandlers

\* PostgresStore.ScanCells: the committed rows of the column with
\* added_id > afterAddedID, in ascending added_id, limit of them
ScanCells(table, columnName, afterAddedID, limit) ==
    Limit(OrderBy(SelectSeq(table, LAMBDA c : /\ c.column_name = columnName
                                              /\ c.added_id > afterAddedID),
                  "added_id ASC"),
          limit)

\* processBatch, the calls of the handlers: cell by cell and handler by
\* handler, up to the call numbered failAt, which returns an error (0: none does)
HandlerCalls(batch, failAt) ==
    LET all == [k \in 1..(Len(batch) * MaxHandlers) |->
                    [added_id |-> batch[((k - 1) \div MaxHandlers) + 1].added_id,
                     handler |-> ((k - 1) % MaxHandlers) + 1,
                     ok |-> k # failAt]]
    IN  IF failAt \in 1..Len(all) THEN SubSeq(all, 1, failAt) ELSE all

\* a changed loop: lastID is set before the handlers of the cell are called
BatchLastID_BeforeHandlers(afterAddedID, calls) ==
    IF calls = <<>> THEN afterAddedID ELSE calls[Len(calls)].added_id

\* processBatch, the value returned: the added_id of the last cell of the
\* batch on which every handler returned nil, or afterAddedID
BatchLastID(afterAddedID, calls) ==
    LET passed == {k \in 1..Len(calls) : calls[k].handler = MaxHandlers /\ calls[k].ok}
    IN  IF passed = {} THEN afterAddedID
        ELSE calls[CHOOSE k \in passed : \A j \in passed : j <= k].added_id

\* PostgresCheckpoint.Load: the row's last_added_id; 0 when the query fails
\* or finds no row
Load(row, dbOK) == IF dbOK /\ row # <<>> THEN row[1] ELSE 0

\* PostgresCheckpoint.Save: INSERT ... ON CONFLICT DO UPDATE SET last_added_id
Save(row, addedID, dbOK) == IF dbOK THEN <<addedID>> ELSE row

\* Watcher.watchShard up to the loop: the checkpoint is loaded
WatchShard(dbOK) ==
    /\ watcher.pc = "stopped"
    /\ LET lastAddedID == Load(checkpoint, dbOK)
       IN  watcher' = [pc |-> "polling", from |-> lastAddedID,
                       lastAddedID |-> lastAddedID, batch |-> <<>>]
    /\ UNCHANGED <<baseVars, cbVars, lostReplies, checkpoint, processed>>

\* Watcher.watchShard, case <-ticker.C: processBatch, then the checkpoint is
\* advanced and saved when the batch got further
Tick(scanOK, failAt, saveOK) ==
    /\ watcher.pc = "polling"
    /\ IF ~scanOK
       THEN /\ watcher' = [watcher EXCEPT !.batch = <<>>]
            /\ UNCHANGED <<checkpoint, processed>>
       ELSE LET batch == ScanCells(cells[WatchedShard], WatchedColumn,
                                   watcher.lastAddedID, BatchSize)
                calls == HandlerCalls(batch, failAt)
                newLastID == BatchLastID(watcher.lastAddedID, calls)
            IN  /\ failAt <= Len(batch) * MaxHandlers
                /\ processed' = processed \cup {calls[k] : k \in 1..Len(calls)}
                /\ watcher' = [watcher EXCEPT
                                    !.batch = calls,
                                    !.lastAddedID = IF newLastID > @ THEN newLastID ELSE @]
                /\ checkpoint' = IF newLastID > watcher.lastAddedID
                                 THEN Save(checkpoint, newLastID, saveOK)
                                 ELSE checkpoint
    /\ UNCHANGED <<baseVars, cbVars, lostReplies>>

\* Watcher.watchShard, case <-ctx.Done(): the final checkpoint is saved and
\* the goroutine returns; a process that is killed saves nothing
Shutdown(saveOK) ==
    /\ watcher.pc = "polling"
    /\ checkpoint' = Save(checkpoint, watcher.lastAddedID, saveOK)
    /\ watcher' = [watcher EXCEPT !.pc = "stopped", !.batch = <<>>]
    /\ UNCHANGED <<baseVars, cbVars, lostReplies, processed>>

\* cells written to the watched shard while the watcher starts, polls and stops
NextWatcher ==
    \/ \E i \in {1, 2}, w \in PartitionPathWrites :
            WriteCellRoute(i, w[1], w[2], w[3], BodyX)
    \/ \E i \in {1, 2} : WriteCellInsert(i)
    \/ \E i \in {1, 2} : WriteCellCommit(i)
    \/ \E dbOK \in BOOLEAN : WatchShard(dbOK)
    \/ \E scanOK, saveOK \in BOOLEAN, failAt \in 0..(BatchSize * MaxHandlers) :
            Tick(scanOK, failAt, saveOK)
    \/ \E saveOK \in BOOLEAN : Shutdown(saveOK)

SpecWatcher == Init /\ [][NextWatcher]_vars

\* the added_ids of the cells on which every handler has returned nil
FullyHandled ==
    {n \in 1..(2 * MaxWrites) :
        \A h \in HandlersFor : [added_id |-> n, handler |-> h, ok |-> TRUE] \in processed}

\* the poll just made stopped at a handler that returned an error
BatchFailed(w) == w.batch # <<>> /\ ~w.batch[Len(w.batch)].ok

\* C34: when a handler returns an error for a cell, the batch stops there (the
\* failing call is the last of the batch), the watcher's position and the saved
\* checkpoint are not moved to or past that cell, and the cell is the first of
\* the next scan; the saved checkpoint is never greater than the added_id of
\* the last cell on which every handler succeeded
C34_FailedCellNotPassed ==
    [][ /\ (checkpoint # <<>> /\ checkpoint[1] # 0) =>
                \E n \in FullyHandled : checkpoint[1] <= n
        /\ (watcher.pc = "polling" /\ watcher'.pc = "polling" /\ BatchFailed(watcher')
                /\ <<watcher, processed>>' # <<watcher, processed>>) =>
            LET failed == watcher'.batch[Len(watcher'.batch)].added_id
                next == ScanCells(cells'[WatchedShard], WatchedColumn,
                                  watcher'.lastAddedID, BatchSize)
            IN  /\ \A k \in 1..(Len(watcher'.batch) - 1) : watcher'.batch[k].ok
                /\ watcher'.lastAddedID < failed
                /\ checkpoint' = checkpoint \/ checkpoint'[1] < failed
                /\ next # <<>>
                /\ next[1].added_id = failed ]_vars

\* a batch of two cells: the handlers passed the first, the second handler
\* failed on the second, and the checkpoint saved is the first cell's
C34_Witness ==
    /\ watcher.pc = "polling"
    /\ Len(watcher.batch) = 2 * MaxHandlers
    /\ BatchFailed(watcher)
    /\ watcher.lastAddedID = watcher.batch[1].added_id
    /\ checkpoint = <<watcher.batch[1].added_id>>
    /\ watcher.batch[Len(watcher.batch)].added_id > watcher.lastAddedID

\* C39: no cell of the watched column is skipped: once the watcher's
\* position is at or past a committed cell whose added_id is above the
\* checkpoint it loaded, every handler has succeeded on that cell
C39_NeverSkipped ==
    watcher.pc = "polling" =>
        \A k \in 1..Len(cells[WatchedShard]) :
            LET c == cells[WatchedShard][k]
            IN  (/\ c.column_name = WatchedColumn
                 /\ watcher.from < c.added_id
                 /\ c.added_id <= watcher.lastAddedID) => c.added_id \in FullyHandled

\* C40: the last_added_id saved for the (shard, column) never decreases, and
\* its row is never removed
C40_CheckpointNeverDecreases ==
    [][ checkpoint # <<>> =>
            checkpoint' # <<>> /\ checkpoint'[1] >= checkpoint[1] ]_vars

\* ------------------------------------------------------------------------
\* The plugin registry over a store whose replies can be lost: a statement
\* the database ran although Exec returned the context's error
\* ------------------------------------------------------------------------

\* PluginRegistry.Register when the context is cancelled or the query timeout
\* passes after the database ran the INSERT of SavePlugin: the row is stored,
\* Exec returns the context's error and the map is left as it is
RegisterLostReply(input) ==
    /\ ~NameTaken(plugins, input.Name)
    /\ nextPluginId <= MaxPlugins
    /\ LET p == Registered(input, nextPluginId)
           ran == SavePlugin(pluginStore, p, TRUE)
           saved == [ran EXCEPT !.err = "save plugin"]
       IN  /\ ran.err = "none"
           /\ pluginStore' = saved.table
           /\ plugins' = RegisterMap(plugins, p, saved)
           /\ nextPluginId' = nextPluginId + 1
           /\ lastRegistry' = [op |-> "Register", id |-> p.ID, name |-> p.Name,
                               err |-> "persist plugin"]
           /\ lostReplies' = lostReplies \cup {p.ID}
    /\ UNCHANGED <<cells, nextId, reqs, notified, idxVars, maxRetries, scan, deliveries,
                   hashed, shardCfg, health, cbVars, watchVars>>

\* PluginRegistry.Delete when the query timeout passes after the database ran
\* the DELETE of DeletePlugin: the row is gone, Exec returns the context's
\* error and the plugin stays in the map
DeleteLostReply(id) ==
    /\ id \in DOMAIN plugins
    /\ LET ran == DeletePlugin(pluginStore, id, TRUE)
           deleted == [ran EXCEPT !.err = "delete plugin"]
       IN  /\ ran.err = "none"
           /\ pluginStore' = deleted.table
           /\ plugins' = DeleteMap(plugins, id, deleted)
           /\ lastRegistry' = [op |-> "Delete", id |-> id, name |-> plugins[id].Name,
                               err |-> "persist delete"]
           /\ lostReplies' = lostReplies \cup {id}
    /\ UNCHANGED <<cells, nextId, reqs, notified, idxVars, nextPluginId, maxRetries, scan,
                   deliveries, hashed, shardCfg, health, cbVars, watchVars>>

\* registrations and deletions in any order, over a store that may fail
\* before or after it ran the statement; the registry's lock makes each call
\* one step
NextRegistryLoss ==
    \/ \E input \in PluginInputs, dbOK \in BOOLEAN : Register(input, dbOK)
    \/ \E id \in PluginIds, dbOK \in BOOLEAN : Delete(id, dbOK)
    \/ \E input \in PluginInputs : RegisterLostReply(input)
    \/ \E id \in PluginIds : DeleteLostReply(id)

SpecRegistryLoss == Init /\ [][NextRegistryLoss]_vars

NextCreatedAt ==
    \/ \E i \in {1, 2}, w \in PartitionPathWrites :
            WriteCellRoute(i, w[1], w[2], w[3], BodyX)
    \/ \E i \in {1, 2}, dbOK \in BOOLEAN : WriteCellStore(i, dbOK)
    \/ ClockTick
    \/ \E limit \in 1..MaxWrites :
            ScanPageBy(PartitionReadTypeCreatedAt, RowKeyShard[UUID(1)], 0, limit)

SpecCreatedAt == Init /\ [][NextCreatedAt]_vars

\* C38: paging through a shard by created_at returns every row exactly once:
\* when the last page is read the pages hold each row of the table, rows
\* with the created_at of the last row of a full page included, and none twice
C38_CreatedAtPaging ==
    [][(scan.pc # "done" /\ scan'.pc = "done"
            /\ scan'.readType = PartitionReadTypeCreatedAt) =>
        /\ {scan'.cells[k] : k \in DOMAIN scan'.cells}
            = {cells'[scan'.partition][k] : k \in DOMAIN cells'[scan'.partition]}
        /\ \A j, k \in DOMAIN scan'.cells :
                j # k => scan'.cells[j] # scan'.cells[k]]_vars

====
